---- MODULE Spec2Model ----
(***************************************************************************)
(* Interactive particle network (123automate.it canvas background).        *)
(*                                                                         *)
(* Modelled parts: the network builder (createNetwork), the force-directed *)
(* layout (applyForceLayout, updatePositions), the node animation and      *)
(* pulse machinery (Node.update, sendRandomImpulse, updatePulses, the      *)
(* pulse pool), the input handlers and the frame loop.                     *)
(*                                                                         *)
(* JavaScript numbers are doubles; the model uses fixed point:             *)
(*   positions and radii in 1/PosScale pixel,                              *)
(*   velocities in 1/VelScale pixel,                                       *)
(*   opacities in 1/OpacityScale,                                          *)
(*   pulse progress and speed in 1/ProgressScale,                          *)
(*   time in whole milliseconds, the two periods a node draws at random    *)
(*   (activationTime, pulseInterval) in 1/TimeScale millisecond.           *)
(* Products with a decimal literal of the source (0.05, 0.999, 0.7 ...)    *)
(* are computed as integer product and division; a comparison of the       *)
(* source is decided on the values before they are rounded.                *)
(* Math.random returns multiples of 1/RandomModulus; the positions, radii  *)
(* and periods made from them are held as they are on a canvas whose sides *)
(* are multiples of 4 pixels.                                              *)
(*                                                                         *)
(* Math.random and the rectangle of the page's .content element are       *)
(* inputs: every handler that calls Math.random is given the values its    *)
(* calls return, every call of updateContentRect the rectangle that        *)
(* getBoundingClientRect returns, or none when the page has no such        *)
(* element.                                                                *)
(***************************************************************************)
EXTENDS Integers, Sequences, FiniteSets, TLC

VARIABLES
    nodes,        \* appState.nodes: the array of Node objects, in array order
    pulsePool,    \* node.js pulsePool: recycled pulse objects
    allocated,    \* number of pulse objects allocated so far (object identities)
    appState,     \* isDragging, selectedNode, lastFrameTime, lastForceLayoutTime,
                  \* contentRect
    pointer,      \* input-manager.js mouseX, mouseY, offsetX, offsetY
    canvas,       \* canvas.width, canvas.height
    pc,           \* position in createNetwork; "idle" between handlers and
                  \* "update" inside the node.update loop of a frame
    iterations,   \* optimizeNetwork: iterations
    event,        \* the handler that ran last, with its inputs and what it did
    counts,       \* handlers run so far: frame callbacks, input events, layout calls
    lastRenderTime  \* timestamp of the last frame callback that rendered, 0 if none

vars == <<nodes, pulsePool, allocated, appState, pointer, canvas, pc,
          iterations, event, counts, lastRenderTime>>

-----------------------------------------------------------------------------
(* Fixed-point scales and arithmetic helpers                               *)

PosScale == 2^4
VelScale == 2^7
TimeScale == 2^3
OpacityScale == 10^4
ProgressScale == 10^6

Null == 0

Abs(a) == IF a < 0 THEN -a ELSE a
Min(a, b) == IF a <= b THEN a ELSE b
Max(a, b) == IF a >= b THEN a ELSE b

\* Division of doubles, truncated toward zero at the fixed-point resolution.
Quot(a, b) ==
    IF (a >= 0) = (b > 0) THEN Abs(a) \div Abs(b) ELSE -(Abs(a) \div Abs(b))

\* Division of doubles, rounded to the nearest multiple of the resolution
Near(a, b) ==
    IF (a >= 0) = (b > 0) THEN (2 * Abs(a) + Abs(b)) \div (2 * Abs(b))
    ELSE -((2 * Abs(a) + Abs(b)) \div (2 * Abs(b)))

MaxInt == 2^30 + (2^30 - 1)

\* [q, r] with a * b = q * c + r and 0 <= r < c, for a >= 0, b >= 0, c > 0.
\* The product of two doubles can exceed the integer width, so it is built
\* from the digits of a in base m, the quotient and the remainder kept apart:
\* h = [q, r] holds (a \div m) * b = q * c + r, and t = r * m + (a % m) * b
\* stays below m * (b + c).
RECURSIVE MulDivLoop(_, _, _)

MulDivCarry(q, t, m, c) == [q |-> q * m + t \div c, r |-> t % c]

MulDivStep(h, low, m, b, c) == MulDivCarry(h.q, h.r * m + low * b, m, c)

MulDivDigits(a, b, c, m) == MulDivStep(MulDivLoop(a \div m, b, c), a % m, m, b, c)

MulDivLoop(a, b, c) ==
    IF b = 0 \/ a <= MaxInt \div b
    THEN [q |-> (a * b) \div c, r |-> (a * b) % c]
    ELSE MulDivDigits(a, b, c, MaxInt \div (b + c))

MulDivRound(h, c) == h.q + (IF 2 * h.r >= c THEN 1 ELSE 0)

\* a * b / c for doubles, c > 0, rounded to the nearest multiple of the
\* resolution
MulDiv(a, b, c) ==
    IF (a >= 0) = (b >= 0) THEN MulDivRound(MulDivLoop(Abs(a), Abs(b), c), c)
    ELSE -MulDivRound(MulDivLoop(Abs(a), Abs(b), c), c)

RECURSIVE SqrtSearch(_, _, _)
SqrtSearch(n, lo, hi) ==
    IF lo >= hi THEN lo
    ELSE LET mid == (lo + hi + 1) \div 2
         IN IF mid * mid <= n THEN SqrtSearch(n, mid, hi)
            ELSE SqrtSearch(n, lo, mid - 1)

\* floor(Math.sqrt(n)) for 0 <= n < 2^31
ISqrt(n) == SqrtSearch(n, 0, Min(n, 46340))

\* floor(Math.sqrt(n * 4^k)) from x = floor(Math.sqrt(n)) and r = n - x * x,
\* one binary digit of the root at a time
RECURSIVE SqrtBits(_, _, _)
SqrtBits(x, r, k) ==
    IF k = 0 THEN x
    ELSE IF 4 * r >= 4 * x + 1 THEN SqrtBits(2 * x + 1, 4 * r - 4 * x - 1, k - 1)
    ELSE SqrtBits(2 * x, 4 * r, k - 1)

SqrtFrom(n, x, k) == SqrtBits(x, n - x * x, k)

\* Math.sqrt(n) in 1/2^k of the resolution of its argument's root
SqrtScaled(n, k) == SqrtFrom(n, ISqrt(n), k)

\* Math.sqrt(dx * dx + dy * dy) < num / den, decided without the root
Closer(dx, dy, num, den) ==
    LET q == num \div den
        r == num % den
        n == dx * dx + dy * dy
    IN /\ Abs(dx) <= q
       /\ Abs(dy) <= q
       /\ \/ n < q * q
          \/ /\ n < (q + 1) * (q + 1)
             /\ den * den * (n - q * q) < 2 * q * r * den + r * r

Range(s) == {s[i] : i \in 1..Len(s)}

\* The array index of the node object with identity id
nodeIndex(ns, id) == CHOOSE k \in 1..Len(ns) : ns[k].id = id

-----------------------------------------------------------------------------
(* Math.random: every call returns a value of [0, 1) that does not depend  *)
(* on the calls before it. The values are an input: a stream                *)
(* s = [values, next] holds the values the coming calls return, as         *)
(* multiples of 1 / RandomModulus, and the number of calls made so far.    *)
(* The calls read `values` in order and start over at its end.             *)

RandomModulus == 2^6

\* The value the next call of Math.random returns, times RandomModulus
Random(s) == s.values[(s.next % Len(s.values)) + 1]

\* The stream after one call
NextRandom(s) == [s EXCEPT !.next = @ + 1]

\* Math.floor(Math.random() * n), the stream being at s
RandomFloor(s, n) == (Random(s) * n) \div RandomModulus

\* Math.random() * n at fixed-point scale `scale`
RandomScaled(s, n, scale) == (Random(s) * n * scale) \div RandomModulus

\* The stream after k calls
SkipRandom(s, k) == [s EXCEPT !.next = @ + k]

\* The streams the model enumerates. A mixed stream holds n values that
\* wander over the whole range: the leading binary digits of a sequence that
\* starts at v and visits every number below MixedModulus. The call streams
\* hold every sequence of DrawsPerCall values of DrawValues.
MixedModulus == 2^16 + 1

RECURSIVE MixedStates(_, _)
MixedStates(v, n) ==
    IF n <= 1 THEN <<v>>
    ELSE LET half == MixedStates(v, n \div 2)
         IN half \o MixedStates((75 * half[n \div 2] + 74) % MixedModulus,
                                n - n \div 2)

MixedValues(v, n) ==
    LET states == MixedStates(v, n)
    IN [i \in 1..n |-> (states[i] * RandomModulus) \div MixedModulus]

MixedStream(v, n) == [values |-> MixedValues(v, n), next |-> 0]

\* 0 and the largest value below 1: below and above the thresholds 0.3, 0.5,
\* 0.7 and 0.98 of node.js, the first and the last index of an array, the
\* slowest and the fastest pulse
DrawValues == {0, 2^6 - 1}

DrawsPerCall == 4

CallStreams ==
    {[values |-> v, next |-> 0] : v \in [1..DrawsPerCall -> DrawValues]}

-----------------------------------------------------------------------------
(* node.js: the Node class                                                 *)

\* Node constructor. Math.random is drawn for active, activationTime and
\* pulseInterval, in that order, the stream being at s.
NewNode(id, x, y, radius, type, s) ==
    LET active == 2 * Random(s) > RandomModulus
    IN [id |-> id, x |-> x, y |-> y, radius |-> radius, type |-> type,
        connections |-> <<>>, pulses |-> <<>>, processingPulses |-> 0,
        active |-> active,
        opacity |-> IF active THEN OpacityScale ELSE (3 * OpacityScale) \div 10,
        targetOpacity |-> IF active THEN OpacityScale
                          ELSE (3 * OpacityScale) \div 10,
        activationTime |-> RandomScaled(NextRandom(s), 5000, TimeScale),
        lastPulseTime |-> 0,
        pulseInterval |-> 1000 * TimeScale
                          + RandomScaled(SkipRandom(s, 2), 2000, TimeScale),
        isHovered |-> FALSE, isDragged |-> FALSE,
        vx |-> 0, vy |-> 0]

\* Node.connect on a connections array
connectMutantNoCheck(connections, target) == Append(connections, target)

connect(connections, target) ==
    IF target \in Range(connections) THEN connections
    ELSE Append(connections, target)

-----------------------------------------------------------------------------
(* network.js: createNetwork                                               *)

MIN_NODES == 15
MAX_NODES == 50
MAX_ITERATIONS == 5

calculateOptimalNodeCountMutantNoClamp(width, height) ==
    LET area == width * height
    IN ISqrt(area) \div 5

calculateOptimalNodeCount(width, height) ==
    LET area == width * height
    IN Max(MIN_NODES, Min(MAX_NODES, ISqrt(area) \div 5))

\* The type given to the i-th created node (i from 0):
\* i < numNodes * 0.2, i < numNodes * 0.8
typeOfIndex(i, numNodes) ==
    IF 5 * i < numNodes THEN "source"
    ELSE IF 5 * i < 4 * numNodes THEN "process"
    ELSE "destination"

\* createNodes: six draws per node (x, y, radius, then the constructor's three)
RECURSIVE createNodes(_, _, _, _, _, _)
createNodes(acc, i, numNodes, width, height, s) ==
    IF i >= numNodes THEN [nodes |-> acc, seed |-> s]
    ELSE LET x == RandomScaled(s, width, PosScale)
             y == RandomScaled(NextRandom(s), height, PosScale)
             radius == 5 * PosScale + RandomScaled(SkipRandom(s, 2), 8, PosScale)
             node == NewNode(i + 1, x, y, radius, typeOfIndex(i, numNodes),
                             SkipRandom(s, 3))
         IN createNodes(Append(acc, node), i + 1, numNodes, width, height,
                        SkipRandom(s, 6))

\* ids of the nodes of one type, in array order (nodes.filter(...))
RECURSIVE idsOfType(_, _)
idsOfType(ns, type) ==
    IF ns = <<>> THEN <<>>
    ELSE (IF Head(ns).type = type THEN <<Head(ns).id>> ELSE <<>>)
         \o idsOfType(Tail(ns), type)

RECURSIVE without(_, _)
without(ids, id) ==
    IF ids = <<>> THEN <<>>
    ELSE (IF Head(ids) = id THEN <<>> ELSE <<Head(ids)>>) \o without(Tail(ids), id)

\* The loop `for (i = 0; i < count && i < pool.length; i++) connect(pool[random])`
RECURSIVE pickTargets(_, _, _, _)
pickTargets(connections, pool, count, s) ==
    IF count <= 0 \/ pool = <<>> THEN [connections |-> connections, seed |-> s]
    ELSE pickTargets(connect(connections, pool[RandomFloor(s, Len(pool)) + 1]),
                     pool, count - 1, NextRandom(s))

candidateProcessesMutantSelf(processes, self) == processes

\* otherProcesses = processes.filter(p => p !== process)
candidateProcesses(processes, self) == without(processes, self)

wireSourceMutantFour(node, processes, s) ==
    LET numConnections == 1 + RandomFloor(s, 4)
    IN pickTargets(node.connections, processes,
                   Min(numConnections, Len(processes)), NextRandom(s))

wireSource(node, processes, s) ==
    LET numConnections == 1 + RandomFloor(s, 3)
    IN pickTargets(node.connections, processes,
                   Min(numConnections, Len(processes)), NextRandom(s))

wireProcess(node, processes, destinations, s) ==
    LET otherProcesses == candidateProcesses(processes, node.id)
        numProcessConnections == RandomFloor(s, 2)
        r1 == pickTargets(node.connections, otherProcesses,
                          Min(numProcessConnections, Len(otherProcesses)),
                          NextRandom(s))
        numDestConnections == 1 + RandomFloor(r1.seed, 2)
    IN pickTargets(r1.connections, destinations,
                   Min(numDestConnections, Len(destinations)),
                   NextRandom(r1.seed))

\* sources.forEach(...) then processes.forEach(...): `type` selects the pass
RECURSIVE wirePass(_, _, _, _, _, _)
wirePass(ns, i, type, processes, destinations, s) ==
    IF i > Len(ns) THEN [nodes |-> ns, seed |-> s]
    ELSE IF ns[i].type # type
         THEN wirePass(ns, i + 1, type, processes, destinations, s)
         ELSE LET r == IF type = "source"
                       THEN wireSource(ns[i], processes, s)
                       ELSE wireProcess(ns[i], processes, destinations, s)
              IN wirePass([ns EXCEPT ![i].connections = r.connections], i + 1,
                          type, processes, destinations, r.seed)

initializeConnections(ns, s) ==
    LET processes == idsOfType(ns, "process")
        destinations == idsOfType(ns, "destination")
        r1 == wirePass(ns, 1, "source", processes, destinations, s)
    IN wirePass(r1.nodes, 1, "process", processes, destinations, r1.seed)

\* The ids that are the target of some connection (the hasIncoming map)
hasIncoming(ns) == UNION {Range(ns[i].connections) : i \in 1..Len(ns)}

RECURSIVE stripConnections(_, _)
stripConnections(ns, id) ==
    IF ns = <<>> THEN <<>>
    ELSE <<[Head(ns) EXCEPT !.connections = without(@, id)]>>
         \o stripConnections(Tail(ns), id)

spliceOut(ns, i) == SubSeq(ns, 1, i - 1) \o SubSeq(ns, i + 1, Len(ns))

\* removeUnconnectedNodes: the loop from the last index down, against the
\* hasIncoming map computed before the loop
RECURSIVE removeLoop(_, _, _, _)
removeLoop(ns, i, incoming, removed) ==
    IF i < 1 THEN [nodes |-> ns, hasRemovedNodes |-> removed]
    ELSE IF ns[i].type # "source" /\ ns[i].id \notin incoming
         THEN removeLoop(spliceOut(stripConnections(ns, ns[i].id), i), i - 1,
                         incoming, TRUE)
         ELSE removeLoop(ns, i - 1, incoming, removed)

removeUnconnectedNodesMutantSourceFed(ns) ==
    LET fed == UNION {Range(ns[i].connections) :
                         i \in {j \in 1..Len(ns) : ns[j].type = "source"}}
        kept == SelectSeq(ns, LAMBDA n : n.type = "source" \/ n.id \in fed)
    IN [nodes |-> kept, hasRemovedNodes |-> Len(kept) < Len(ns)]

removeUnconnectedNodes(ns) == removeLoop(ns, Len(ns), hasIncoming(ns), FALSE)

RECURSIVE optimizeNetwork(_, _)
optimizeNetwork(ns, iter) ==
    IF iter >= MAX_ITERATIONS THEN ns
    ELSE LET r == removeUnconnectedNodes(ns)
         IN IF ~r.hasRemovedNodes THEN r.nodes
            ELSE optimizeNetwork(r.nodes, iter + 1)

\* Math.random calls of createNetwork for numNodes nodes: six per node in
\* createNodes and at most five per node in initializeConnections
networkDraws(numNodes) == 11 * numNodes

\* createNetwork(width, height) with the Math.random stream at s
wired(created) == initializeConnections(created.nodes, created.seed)

optimized(net) == [nodes |-> optimizeNetwork(net.nodes, 0), seed |-> net.seed]

createNetwork(width, height, s) ==
    optimized(wired(createNodes(<<>>, 0, calculateOptimalNodeCount(width, height),
                                width, height, s)))

-----------------------------------------------------------------------------
(* force-layout.js: applyForceLayout and updatePositions.                  *)
(* `strength10` is the strength in tenths (5 for 0.5, 15 for 1.5); width   *)
(* and height are canvas pixels; positions and radii are in 1/PosScale     *)
(* pixel, velocities and forces in 1/VelScale pixel, the content rectangle *)
(* inside the pass in 1/RectScale pixel, minDistance and edgePadding in    *)
(* 1/ConfigScale pixel, so that the thresholds of the code are held as     *)
(* they are. A quotient is rounded to the nearest multiple of its          *)
(* resolution. A canvas side of 0 makes the code divide by zero            *)
(* (1000 / 0 is Infinity); the model has no such number and takes canvases *)
(* with positive sides.                                                    *)

STRONG == 15     \* strength 1.5 of the initial and the resize pass, in tenths
GENTLE == 5      \* strength 0.5 of the periodic pass, in tenths

RectScale == 10 * PosScale
ConfigScale == 100 * PosScale
DistBits == 3 * 4   \* a distance is held in 1/2^DistBits of 1/PosScale px

VelPerPos == VelScale \div PosScale
RectPerPos == RectScale \div PosScale
ConfigPerPos == ConfigScale \div PosScale
ForcePerVel == 10^2  \* the two force constants are in 1/ForcePerVel of 1/VelScale px

layoutConfig(width, height, strength10) ==
    [iterations |-> IF strength10 > 5 THEN 2 ELSE 1,
     \* 5000 * strength px^3, as velocity times squared position units
     repulsionForce |-> 500 * strength10 * VelScale * PosScale * PosScale,
     attractionForce |-> 4 * strength10,                  \* in 1/10000
     contentRepulsionForce |-> (3 * strength10 * VelScale * ForcePerVel) \div 10,
     contentPadding |-> 20 * RectScale,
     maxDisplacement |-> (15 * strength10 * VelScale) \div 10,
     coolingFactor |-> 9,                                  \* in 1/10
     minDistance |-> (Min(width, height) * 15 * ConfigScale) \div 100,
     edgePadding |-> (Min(width, height) * ConfigScale) \div 100,
     edgeForce |-> (strength10 * VelScale * ForcePerVel) \div 10]

\* appState.contentRect is NoRect while it is null, and <<rect>> once
\* updateContentRect has stored a rectangle
NoRect == <<>>

\* The content rectangle used when none is supplied (lines 47-60), in
\* 1/RectScale px
defaultContentRect(width, height) ==
    LET contentWidth == Min(600 * RectScale, (width * RectScale * 8) \div 10)
        contentHeight == Min(400 * RectScale, (height * RectScale * 6) \div 10)
        cx == (width * RectScale) \div 2
        cy == (height * RectScale) \div 2
    IN [left |-> cx - contentWidth \div 2, right |-> cx + contentWidth \div 2,
        top |-> cy - contentHeight \div 2, bottom |-> cy + contentHeight \div 2,
        width |-> contentWidth, height |-> contentHeight]

\* A rectangle read from the page, which is in 1/PosScale px, in 1/RectScale px
suppliedContentRect(rect) ==
    [left |-> rect.left * RectPerPos, right |-> rect.right * RectPerPos,
     top |-> rect.top * RectPerPos, bottom |-> rect.bottom * RectPerPos,
     width |-> rect.width * RectPerPos, height |-> rect.height * RectPerPos]

enforceBoundariesMutantNone(node, width, height) == node

enforceBoundariesMutantStop(node, width, height) ==
    LET margin == node.radius * 2
        w == width * PosScale
        h == height * PosScale
    IN [node EXCEPT
          !.x = IF @ < margin THEN margin ELSE IF @ > w - margin THEN w - margin ELSE @,
          !.vx = IF node.x < margin \/ node.x > w - margin THEN 0 ELSE @,
          !.y = IF @ < margin THEN margin ELSE IF @ > h - margin THEN h - margin ELSE @,
          !.vy = IF node.y < margin \/ node.y > h - margin THEN 0 ELSE @]

enforceBoundaries(node, width, height) ==
    LET margin == node.radius * 2
        w == width * PosScale
        h == height * PosScale
        n1 == IF node.x < margin
              THEN [node EXCEPT !.x = margin, !.vx = Quot(Abs(node.vx), 2)]
              ELSE node
        n2 == IF n1.x > w - margin
              THEN [n1 EXCEPT !.x = w - margin, !.vx = -Quot(Abs(n1.vx), 2)]
              ELSE n1
        n3 == IF n2.y < margin
              THEN [n2 EXCEPT !.y = margin, !.vy = Quot(Abs(n2.vy), 2)]
              ELSE n2
    IN IF n3.y > h - margin
       THEN [n3 EXCEPT !.y = h - margin, !.vy = -Quot(Abs(n3.vy), 2)]
       ELSE n3

\* node.vx *= scale, node.vy *= scale for scale = maxDisplacement /
\* displacement; displacement is in 1/2^8 of 1/VelScale px
scaledTo(a, b, displacement, maxDisplacement) ==
    [vx |-> MulDiv(a, maxDisplacement * 2^8, displacement),
     vy |-> MulDiv(b, maxDisplacement * 2^8, displacement)]

\* Math.sqrt(node.vx * node.vx + node.vy * node.vy) > config.maxDisplacement
\* and the velocity scaled to that length; the components are divided by k
\* where their squares would exceed the integer width
limitedTo(vx, vy, k, maxDisplacement) ==
    LET a == Quot(vx, k)
        b == Quot(vy, k)
    IN IF k > 1 \/ a * a + b * b > maxDisplacement * maxDisplacement
       THEN scaledTo(a, b, SqrtScaled(a * a + b * b, 8), maxDisplacement)
       ELSE [vx |-> vx, vy |-> vy]

cooled(node, limited, coolingFactor) ==
    [node EXCEPT !.vx = Near(limited.vx * coolingFactor, 10),
                 !.vy = Near(limited.vy * coolingFactor, 10)]

limitVelocity(node, config) ==
    cooled(node,
           limitedTo(node.vx, node.vy, 1 + Max(Abs(node.vx), Abs(node.vy)) \div 2^15,
                     config.maxDisplacement),
           config.coolingFactor)

limitVelocities(ns, config) == [i \in 1..Len(ns) |-> limitVelocity(ns[i], config)]

\* The push on a node outside the padded rectangle (lines 215-236): dx, dy
\* are in 1/RectScale px, distance and repulsionRadius in 1/2^8 of that
awayFrom(node, dx, dy, distance, force) ==
    [node EXCEPT !.vx = @ + Near(MulDiv(force, dx * 2^8, distance), ForcePerVel),
                 !.vy = @ + Near(MulDiv(force, dy * 2^8, distance), ForcePerVel)]

gradientPush(node, dx, dy, distance, repulsionRadius, contentRepulsionForce) ==
    awayFrom(node, dx, dy, distance,
             MulDiv(contentRepulsionForce, repulsionRadius - distance, repulsionRadius))

\* contentRect is in 1/RectScale px
applyContentRepulsion(node, contentRect, config) ==
    LET left == contentRect.left - config.contentPadding
        right == contentRect.right + config.contentPadding
        top == contentRect.top - config.contentPadding
        bottom == contentRect.bottom + config.contentPadding
        x == node.x * RectPerPos
        y == node.y * RectPerPos
        isInXRange == x >= left /\ x <= right
        isInYRange == y >= top /\ y <= bottom
    IN IF isInXRange /\ isInYRange
       THEN LET distToLeft == x - left
                distToRight == right - x
                distToTop == y - top
                distToBottom == bottom - y
                minDist == Min(Min(distToLeft, distToRight),
                               Min(distToTop, distToBottom))
                force == Near(config.contentRepulsionForce * 3, ForcePerVel)
            IN IF minDist = distToLeft THEN [node EXCEPT !.vx = @ - force]
               ELSE IF minDist = distToRight THEN [node EXCEPT !.vx = @ + force]
               ELSE IF minDist = distToTop THEN [node EXCEPT !.vy = @ - force]
               ELSE [node EXCEPT !.vy = @ + force]
       ELSE LET closestX == Max(left, Min(x, right))
                closestY == Max(top, Min(y, bottom))
                dx == x - closestX
                dy == y - closestY
                \* 8 * repulsionRadius
                radius8 == Min(8 * 100 * RectScale,
                               Max(8 * 50 * RectScale,
                                   contentRect.width + contentRect.height))
            IN IF Closer(dx, dy, radius8, 8) /\ (dx # 0 \/ dy # 0)
               THEN gradientPush(node, dx, dy, SqrtScaled(dx * dx + dy * dy, 8),
                                 radius8 * 2^5, config.contentRepulsionForce)
               ELSE node

\* scaledEdgeForce * Math.pow(1 - d / edgePadding, 2), where scaledEdgeForce
\* is edgeForce * (1 + 1000 / side) and d is in 1/PosScale px
edgePush(edgeForce, side, d, edgePadding) ==
    MulDiv(MulDiv(edgeForce * (side + 1000), edgePadding - d * ConfigPerPos,
                  edgePadding * side),
           edgePadding - d * ConfigPerPos, edgePadding * ForcePerVel)

edgePushed(node, ax, bx, ay, by) ==
    [node EXCEPT !.vx = @ + ax - bx, !.vy = @ + ay - by]

applyEdgeForces(node, width, height, config) ==
    LET w == width * PosScale
        h == height * PosScale
        pad == config.edgePadding
        side == Min(width, height)
    IN edgePushed(node,
                  IF node.x * ConfigPerPos < pad
                  THEN edgePush(config.edgeForce, side, node.x, pad) ELSE 0,
                  IF (w - node.x) * ConfigPerPos < pad
                  THEN edgePush(config.edgeForce, side, w - node.x, pad) ELSE 0,
                  IF node.y * ConfigPerPos < pad
                  THEN edgePush(config.edgeForce, side, node.y, pad) ELSE 0,
                  IF (h - node.y) * ConfigPerPos < pad
                  THEN edgePush(config.edgeForce, side, h - node.y, pad) ELSE 0)

\* Math.sqrt(dx * dx + dy * dy) || 1, in 1/2^DistBits of 1/PosScale px
\* the components are divided by k where their squares would exceed the
\* integer width
scaledRoot(dx, dy, k) ==
    k * SqrtScaled(Quot(dx, k) * Quot(dx, k) + Quot(dy, k) * Quot(dy, k), DistBits)

distanceOrOneMutantZero(dx, dy) ==
    scaledRoot(dx, dy, 1 + Max(Abs(dx), Abs(dy)) \div 2^15)

distanceOrOneMutantUnit(dx, dy) ==
    IF dx = 0 /\ dy = 0 THEN 1
    ELSE scaledRoot(dx, dy, 1 + Max(Abs(dx), Abs(dy)) \div 2^15)

distanceOrOne(dx, dy) ==
    IF dx = 0 /\ dy = 0 THEN PosScale * 2^DistBits
    ELSE scaledRoot(dx, dy, 1 + Max(Abs(dx), Abs(dy)) \div 2^15)

\* distance < limit / ConfigPerPos for distance = distanceOrOne(dx, dy)
distanceBelow(dx, dy, limit) ==
    IF dx = 0 /\ dy = 0 THEN PosScale * ConfigPerPos < limit
    ELSE Closer(dx, dy, limit, ConfigPerPos)

\* distance * distance, in squared 1/PosScale px
distanceSquared(dx, dy) ==
    IF dx = 0 /\ dy = 0 THEN PosScale * PosScale ELSE dx * dx + dy * dy

\* node.vx += forceX for nodes[i] and connected.vx -= forceX for nodes[c],
\* and the same on the other axis
forcePair(ns, i, c, forceX, forceY) ==
    [ns EXCEPT ![i].vx = @ + forceX, ![i].vy = @ + forceY,
               ![c].vx = @ - forceX, ![c].vy = @ - forceY]

\* (d / distance) * force for force = repulsionForce / (distance * distance)
repulsion(d, distance, squared, repulsionForce) ==
    Near(MulDiv(repulsionForce, d * 2^DistBits, distance), squared)

repelled(ns, a, b, dx, dy, distance, squared, repulsionForce) ==
    forcePair(ns, b, a, repulsion(dx, distance, squared, repulsionForce),
              repulsion(dy, distance, squared, repulsionForce))

\* const distance = Math.sqrt(dx * dx + dy * dy) || 1 for nodes a and b of ns
pairDistance(ns, a, b) == distanceOrOne(ns[b].x - ns[a].x, ns[b].y - ns[a].y)

\* The force pair of applyNodeRepulsion for nodes a and b of ns, `distance`
\* apart (lines 295-304)
repulsionOver(ns, a, b, distance, config) ==
    LET dx == ns[b].x - ns[a].x
        dy == ns[b].y - ns[a].y
    IN IF distanceBelow(dx, dy, config.minDistance * 2)
       THEN repelled(ns, a, b, dx, dy, distance, distanceSquared(dx, dy),
                     config.repulsionForce)
       ELSE ns

\* Lines 290-304 of applyNodeRepulsion for nodes a and b of ns
repulsionPair(ns, a, b, config) ==
    repulsionOver(ns, a, b, pairDistance(ns, a, b), config)

RECURSIVE applyNodeRepulsion(_, _, _, _)
applyNodeRepulsion(ns, a, b, config) ==
    IF b > Len(ns) THEN ns
    ELSE IF ns[b].isDragged THEN applyNodeRepulsion(ns, a, b + 1, config)
    ELSE applyNodeRepulsion(repulsionPair(ns, a, b, config), a, b + 1, config)

\* The forces of one connection of node i (applyConnectionAttractions, inner)
attracted(ns, i, c, dx, dy, distance, force) ==
    forcePair(ns, i, c, MulDiv(dx * VelPerPos, force, distance),
              MulDiv(dy * VelPerPos, force, distance))

attractedOver(ns, i, c, dx, dy, distance, attractionForce) ==
    attracted(ns, i, c, dx, dy, distance, MulDiv(distance, attractionForce, 10000))

\* The force pair of applyConnectionAttractions for node i and its connection
\* c, `distance` apart (lines 327-334)
attractionOver(ns, i, c, distance, config) ==
    attractedOver(ns, i, c, ns[c].x - ns[i].x, ns[c].y - ns[i].y, distance,
                  config.attractionForce)

\* Lines 322-334 of applyConnectionAttractions for node i and its connection c
attractionPair(ns, i, c, config) ==
    attractionOver(ns, i, c, pairDistance(ns, i, c), config)

RECURSIVE attractConnections(_, _, _, _)
attractConnections(ns, i, j, config) ==
    IF j > Len(ns[i].connections) THEN ns
    ELSE LET c == nodeIndex(ns, ns[i].connections[j])
         IN IF ns[c].isDragged THEN attractConnections(ns, i, j + 1, config)
            ELSE attractConnections(attractionPair(ns, i, c, config), i, j + 1,
                                    config)

RECURSIVE applyConnectionAttractions(_, _, _)
applyConnectionAttractions(ns, i, config) ==
    IF i > Len(ns) THEN ns
    ELSE IF ns[i].isDragged THEN applyConnectionAttractions(ns, i + 1, config)
    ELSE applyConnectionAttractions(attractConnections(ns, i, 1, config), i + 1,
                                    config)

RECURSIVE applyForcesLoop(_, _, _, _, _, _)
applyForcesLoop(ns, a, width, height, contentRect, config) ==
    IF a > Len(ns) THEN ns
    ELSE IF ns[a].isDragged
         THEN applyForcesLoop(ns, a + 1, width, height, contentRect, config)
         ELSE LET n1 == applyContentRepulsion(ns[a], contentRect, config)
                  n2 == applyEdgeForces(n1, width, height, config)
                  ns2 == applyNodeRepulsion([ns EXCEPT ![a] = n2], a, a + 1, config)
              IN applyForcesLoop(ns2, a + 1, width, height, contentRect, config)

applyForces(ns, width, height, contentRect, config) ==
    applyConnectionAttractions(
        applyForcesLoop(ns, 1, width, height, contentRect, config), 1, config)

RECURSIVE simulate(_, _, _, _, _, _)
simulate(ns, iteration, width, height, contentRect, config) ==
    IF iteration >= config.iterations THEN ns
    ELSE simulate(limitVelocities(applyForces(ns, width, height, contentRect, config),
                                  config),
                  iteration + 1, width, height, contentRect, config)

\* vx * blendFactor + original.vx * (1 - blendFactor), blendFactor = 0.7
blend(new, original) == Near(new * 7 + original * 3, 10)

\* The last loop of applyForceLayout: the blend, then enforceBoundaries
blendAll(forced, ns, width, height) ==
    [i \in 1..Len(ns) |->
        enforceBoundaries(
            [forced[i] EXCEPT !.vx = blend(@, ns[i].vx), !.vy = blend(@, ns[i].vy)],
            width, height)]

\* applyForceLayout past its guard: velocities saved and zeroed, the
\* simulation, the blend with the saved velocities, the boundary clamp
layoutPass(ns, width, height, contentRect, strength10) ==
    LET config == layoutConfig(width, height, strength10)
        zeroed == [i \in 1..Len(ns) |-> [ns[i] EXCEPT !.vx = 0, !.vy = 0]]
        rect == IF contentRect = NoRect THEN defaultContentRect(width, height)
                ELSE suppliedContentRect(contentRect[1])
        forced == simulate(zeroed, 0, width, height, rect, config)
    IN blendAll(forced, ns, width, height)

applyForceLayoutMutantNoGuard(ns, width, height, contentRect, strength10) ==
    layoutPass(ns, width, height, contentRect, strength10)

applyForceLayout(ns, width, height, contentRect, strength10) ==
    IF strength10 <= 0 THEN ns
    ELSE layoutPass(ns, width, height, contentRect, strength10)

\* deltaTime / 16.667 is deltaTime * 1000 / FrameUnit
FrameUnit == 16667

\* |vel| * frameAdjustedSpeed in 1/PosScale px, for frameAdjustedSpeed =
\* animationSpeed * (deltaTime / 16.667) and animationSpeed = 0.05: the
\* quotient q and the remainder r of its division by 4 * FrameUnit
frameStep(vel, deltaTime) == MulDivLoop(Abs(vel), 25 * deltaTime, 4 * FrameUnit)

\* node.x + node.vx * frameAdjustedSpeed rounded to the resolution
steppedTo(pos, vel, deltaTime) ==
    IF vel >= 0 THEN pos + MulDivRound(frameStep(vel, deltaTime), 4 * FrameUnit)
    ELSE pos - MulDivRound(frameStep(vel, deltaTime), 4 * FrameUnit)

updatePositionMutantNoClamp(node, width, height, deltaTime) ==
    IF node.isDragged THEN node
    ELSE [node EXCEPT !.x = steppedTo(@, node.vx, deltaTime),
                      !.y = steppedTo(@, node.vy, deltaTime)]

\* One axis of updatePositions (lines 352-378): the step, then the two
\* boundary tests. The tests compare the position the step leads to before it
\* is rounded to the fixed-point resolution (it lies between `below` and
\* `above`), so a step shorter than the resolution still crosses a margin
\* the node is on.
movedAxis(pos, vel, margin, size, deltaTime) ==
    LET step == frameStep(vel, deltaTime)
        part == IF step.r > 0 THEN 1 ELSE 0
        below == IF vel >= 0 THEN pos + step.q ELSE pos - step.q - part
        above == IF vel >= 0 THEN pos + step.q + part ELSE pos - step.q
        low == below < margin
        high == IF low THEN margin > size - margin ELSE above > size - margin
        v1 == IF low THEN Quot(Abs(vel), 2) ELSE vel
    IN IF high THEN [pos |-> size - margin, vel |-> -Quot(Abs(v1), 2)]
       ELSE IF low THEN [pos |-> margin, vel |-> v1]
       ELSE [pos |-> steppedTo(pos, vel, deltaTime), vel |-> vel]

\* updatePositions for one node
updatePosition(node, width, height, deltaTime) ==
    IF node.isDragged THEN node
    ELSE LET margin == node.radius * 2
             ax == movedAxis(node.x, node.vx, margin, width * PosScale, deltaTime)
             ay == movedAxis(node.y, node.vy, margin, height * PosScale, deltaTime)
         IN [node EXCEPT !.x = ax.pos, !.vx = ax.vel, !.y = ay.pos, !.vy = ay.vel]

updatePositions(ns, width, height, deltaTime) ==
    [i \in 1..Len(ns) |-> updatePosition(ns[i], width, height, deltaTime)]

dampenMutantAll(node) ==
    [node EXCEPT !.vx = Quot(@ * 999, 1000), !.vy = Quot(@ * 999, 1000)]

\* node.vx *= 0.999 for the nodes that are not dragged (main.js)
dampen(node) ==
    IF node.isDragged THEN node
    ELSE [node EXCEPT !.vx = Quot(@ * 999, 1000), !.vy = Quot(@ * 999, 1000)]

-----------------------------------------------------------------------------
(* node.js: pulses and Node.update.                                        *)
(* The operators below work on a world w = [nodes, pool, allocated, seed]: *)
(* the node array, the pulse pool, the number of pulse objects allocated   *)
(* and the stream the Math.random calls read.                              *)

MAX_PULSE_COUNT == 100

\* Math.random() > p / q, the stream being at s
RandomAbove(s, p, q) == Random(s) * q > p * RandomModulus

createPulseMutantSwapped(pool, alloc, source, target, speed) ==
    IF Len(pool) > 0
    THEN [pulse |-> [pool[Len(pool)] EXCEPT !.source = target, !.target = source,
                                            !.progress = 0, !.speed = speed],
          pool |-> SubSeq(pool, 1, Len(pool) - 1),
          allocated |-> alloc]
    ELSE [pulse |-> [id |-> alloc + 1, source |-> target, target |-> source,
                     progress |-> 0, speed |-> speed],
          pool |-> pool,
          allocated |-> alloc + 1]

createPulseMutantStale(pool, alloc, source, target, speed) ==
    IF Len(pool) > 0
    THEN [pulse |-> [pool[Len(pool)] EXCEPT !.source = source, !.target = target,
                                            !.speed = speed],
          pool |-> SubSeq(pool, 1, Len(pool) - 1),
          allocated |-> alloc]
    ELSE [pulse |-> [id |-> alloc + 1, source |-> source, target |-> target,
                     progress |-> 0, speed |-> speed],
          pool |-> pool,
          allocated |-> alloc + 1]

recyclePulseMutantNoCap(pool, pulse) == Append(pool, pulse)

\* createPulse: the pulse object, the pool and the allocation count after it
createPulse(pool, alloc, source, target, speed) ==
    IF Len(pool) > 0
    THEN [pulse |-> [pool[Len(pool)] EXCEPT !.source = source, !.target = target,
                                            !.progress = 0, !.speed = speed],
          pool |-> SubSeq(pool, 1, Len(pool) - 1),
          allocated |-> alloc]
    ELSE [pulse |-> [id |-> alloc + 1, source |-> source, target |-> target,
                     progress |-> 0, speed |-> speed],
          pool |-> pool,
          allocated |-> alloc + 1]

recyclePulse(pool, pulse) ==
    IF Len(pool) < MAX_PULSE_COUNT THEN Append(pool, pulse) ELSE pool

\* 0.002 + Math.random() * PULSE_SPEED, in 1/ProgressScale
pulseSpeed(s) == 2000 + (Random(s) * 23000) \div RandomModulus

emitMutantNoDecrement(node, pulse) == [node EXCEPT !.pulses = Append(@, pulse)]

emitMutantDrain(node, pulse) ==
    [node EXCEPT !.pulses = Append(@, pulse), !.processingPulses = 0]

\* this.pulses.push(pulse); if (this.processingPulses > 0) this.processingPulses -= 1
emit(node, pulse) ==
    [node EXCEPT !.pulses = Append(@, pulse),
                 !.processingPulses = IF @ > 0 THEN @ - 1 ELSE @]

sendRandomImpulseMutantAnyTarget(w, i) ==
    LET node == w.nodes[i]
        s1 == w.seed
        s2 == NextRandom(s1)
        s3 == NextRandom(s2)
    IN IF Len(node.connections) = 0 THEN w
       ELSE IF ~RandomAbove(s1, 3, 10) THEN [w EXCEPT !.seed = s2]
       ELSE LET randomIndex == RandomFloor(s2, Len(node.connections))
                randomConnection == node.connections[randomIndex + 1]
                c == createPulse(w.pool, w.allocated, node.id,
                                 randomConnection, pulseSpeed(s3))
            IN [nodes |-> [w.nodes EXCEPT ![i] = emit(@, c.pulse)],
                pool |-> c.pool,
                allocated |-> c.allocated,
                seed |-> NextRandom(s3)]

\* Node.sendRandomImpulse of the node at index i
sendRandomImpulse(w, i) ==
    LET node == w.nodes[i]
        s1 == w.seed
        s2 == NextRandom(s1)
        s3 == NextRandom(s2)
    IN IF Len(node.connections) = 0 THEN w
       ELSE IF ~RandomAbove(s1, 3, 10) THEN [w EXCEPT !.seed = s2]
       ELSE LET randomIndex == RandomFloor(s2, Len(node.connections))
                randomConnection == node.connections[randomIndex + 1]
                t == nodeIndex(w.nodes, randomConnection)
            IN IF w.nodes[t].opacity * 2 > OpacityScale
               THEN LET c == createPulse(w.pool, w.allocated, node.id,
                                         randomConnection, pulseSpeed(s3))
                    IN [nodes |-> [w.nodes EXCEPT ![i] = emit(@, c.pulse)],
                        pool |-> c.pool,
                        allocated |-> c.allocated,
                        seed |-> NextRandom(s3)]
               ELSE [w EXCEPT !.seed = s3]

\* pulse.speed * (deltaTime / 16.667), truncated at the resolution
progressStep(speed, deltaTime) == MulDivLoop(speed, deltaTime * 1000, FrameUnit).q

\* pulse.progress += pulse.speed * (deltaTime / 16.667)
advance(pulse, deltaTime) ==
    [pulse EXCEPT !.progress = @ + progressStep(pulse.speed, deltaTime)]

isCompleteMutantNever(pulse) == FALSE

\* pulse.progress >= 1
isComplete(pulse) == pulse.progress >= ProgressScale

receiveMutantNoCount(node) ==
    [node EXCEPT !.active = TRUE, !.opacity = OpacityScale,
                 !.targetOpacity = OpacityScale]

receiveMutantNoSnap(node) ==
    [node EXCEPT !.processingPulses = @ + 1, !.active = TRUE,
                 !.targetOpacity = OpacityScale]

\* The target of a pulse that has reached it: one more pending pulse, active,
\* opacity and targetOpacity 1
receive(node) ==
    [node EXCEPT !.processingPulses = @ + 1, !.active = TRUE,
                 !.opacity = OpacityScale, !.targetOpacity = OpacityScale]

arriveMutantNoSplice(w, i, j) ==
    LET pulse == w.nodes[i].pulses[j]
        t == nodeIndex(w.nodes, pulse.target)
        w1 == [w EXCEPT !.nodes[t] = receive(@)]
        w2 == IF w1.nodes[t].type = "process"
              THEN IF RandomAbove(w1.seed, 7, 10)
                   THEN sendRandomImpulse([w1 EXCEPT !.seed = NextRandom(@)], t)
                   ELSE [w1 EXCEPT !.seed = NextRandom(@)]
              ELSE w1
    IN [w2 EXCEPT !.pool = recyclePulse(@, pulse)]

\* What happens when the pulse at index j of node i has reached its target
arrive(w, i, j) ==
    LET pulse == w.nodes[i].pulses[j]
        t == nodeIndex(w.nodes, pulse.target)
        w1 == [w EXCEPT !.nodes[t] = receive(@)]
        w2 == IF w1.nodes[t].type = "process"
              THEN IF RandomAbove(w1.seed, 7, 10)
                   THEN sendRandomImpulse([w1 EXCEPT !.seed = NextRandom(@)], t)
                   ELSE [w1 EXCEPT !.seed = NextRandom(@)]
              ELSE w1
    IN [w2 EXCEPT !.pool = recyclePulse(@, pulse),
                  !.nodes[i].pulses = SubSeq(@, 1, j - 1) \o SubSeq(@, j + 1, Len(@))]

\* The body of the loop of Node.updatePulses for the pulse at index j
updatePulse(w, i, j, deltaTime) ==
    LET w1 == [w EXCEPT !.nodes[i].pulses[j] = advance(@, deltaTime)]
    IN IF isComplete(w1.nodes[i].pulses[j]) THEN arrive(w1, i, j) ELSE w1

\* Node.updatePulses: the loop over the pulses at the indices from..to, from
\* the last down to the first (the upper half of the range, then the lower)
RECURSIVE updatePulsesLoop(_, _, _, _, _)
updatePulsesLoop(w, i, from, to, deltaTime) ==
    IF to < from \/ w.nodes[i].pulses = <<>> THEN w
    ELSE IF to = from THEN updatePulse(w, i, to, deltaTime)
    ELSE LET mid == (from + to) \div 2
             upper == updatePulsesLoop(w, i, mid + 1, to, deltaTime)
         IN updatePulsesLoop(upper, i, from, mid, deltaTime)

updatePulses(w, i, deltaTime) ==
    updatePulsesLoop(w, i, 1, Len(w.nodes[i].pulses), deltaTime)

\* nodePosition < 0.7, nodePosition = (time % 15000 / 15000 + activationTime / 5000) % 1
shouldBeActive(node, time) ==
    ((time % 15000) * TimeScale + 3 * node.activationTime) % (15000 * TimeScale)
        < 10500 * TimeScale

targetOpacityOfMutantPhaseOnly(node, time) ==
    IF shouldBeActive(node, time) THEN OpacityScale ELSE (3 * OpacityScale) \div 10

targetOpacityOf(node, time) ==
    IF node.isHovered \/ node.isDragged THEN OpacityScale
    ELSE IF shouldBeActive(node, time) THEN OpacityScale
    ELSE (3 * OpacityScale) \div 10

\* The opacity transition: a 5% step toward the target, or the target itself
\* once within 0.01 of it
relaxOpacity(opacity, target) ==
    IF Abs(opacity - target) * 100 > OpacityScale
    THEN opacity + Quot((target - opacity) * 5, 100)
    ELSE target

updateAppearanceMutantStaleActive(node, time) ==
    LET target == targetOpacityOf(node, time)
        opacity == relaxOpacity(node.opacity, target)
    IN [node EXCEPT !.targetOpacity = target, !.opacity = opacity,
                    !.active = node.opacity * 10 > 7 * OpacityScale]

\* Lines 127-154 of Node.update: targetOpacity, opacity, active
updateAppearance(node, time) ==
    LET target == targetOpacityOf(node, time)
        opacity == relaxOpacity(node.opacity, target)
    IN [node EXCEPT !.targetOpacity = target, !.opacity = opacity,
                    !.active = opacity * 10 > 7 * OpacityScale]

updateMutantNoStamp(w, i, time, deltaTime) ==
    LET w1 == [w EXCEPT !.nodes[i] = updateAppearance(@, time)]
        node == w1.nodes[i]
        w2 == IF node.active /\ node.type = "source"
                 /\ (time - node.lastPulseTime) * TimeScale > node.pulseInterval
              THEN sendRandomImpulse(w1, i)
              ELSE w1
        w3 == IF w2.nodes[i].type = "process" /\ w2.nodes[i].processingPulses > 0
              THEN IF RandomAbove(w2.seed, 98, 100)
                   THEN sendRandomImpulse([w2 EXCEPT !.seed = NextRandom(@)], i)
                   ELSE [w2 EXCEPT !.seed = NextRandom(@)]
              ELSE w2
    IN updatePulses(w3, i, deltaTime)

\* Node.update of the node at index i
update(w, i, time, deltaTime) ==
    LET w1 == [w EXCEPT !.nodes[i] = updateAppearance(@, time)]
        node == w1.nodes[i]
        w2 == IF node.active /\ node.type = "source"
                 /\ (time - node.lastPulseTime) * TimeScale > node.pulseInterval
              THEN sendRandomImpulse([w1 EXCEPT !.nodes[i].lastPulseTime = time], i)
              ELSE w1
        w3 == IF w2.nodes[i].type = "process" /\ w2.nodes[i].processingPulses > 0
              THEN IF RandomAbove(w2.seed, 98, 100)
                   THEN sendRandomImpulse([w2 EXCEPT !.seed = NextRandom(@)], i)
                   ELSE [w2 EXCEPT !.seed = NextRandom(@)]
              ELSE w2
    IN updatePulses(w3, i, deltaTime)

-----------------------------------------------------------------------------
(* input-manager.js: hit test, press, move, release                        *)

\* Math.sqrt(dx * dx + dy * dy) <= node.radius * 1.5
isHit(node, x, y) ==
    LET dx == x - node.x
        dy == y - node.y
    IN 4 * (dx * dx + dy * dy) <= 9 * node.radius * node.radius

hitIndexMutantLast(ns, x, y) ==
    IF \E k \in 1..Len(ns) : isHit(ns[k], x, y)
    THEN CHOOSE k \in 1..Len(ns) :
            isHit(ns[k], x, y) /\ \A j \in (k + 1)..Len(ns) : ~isHit(ns[j], x, y)
    ELSE 0

\* The index of the first node of the array that is hit, 0 when none is
hitIndex(ns, x, y) ==
    IF \E k \in 1..Len(ns) : isHit(ns[k], x, y)
    THEN CHOOSE k \in 1..Len(ns) :
            isHit(ns[k], x, y) /\ \A j \in 1..(k - 1) : ~isHit(ns[j], x, y)
    ELSE 0

checkNodeSelectionMutantNoFlag(ns, app, ptr, x, y) ==
    LET k == hitIndex(ns, x, y)
        moved == [ptr EXCEPT !.mouseX = x, !.mouseY = y]
    IN IF k = 0 THEN [nodes |-> ns, appState |-> app, pointer |-> moved]
       ELSE [nodes |-> ns,
             appState |-> [app EXCEPT !.isDragging = TRUE,
                                      !.selectedNode = ns[k].id],
             pointer |-> [moved EXCEPT !.offsetX = x - ns[k].x,
                                       !.offsetY = y - ns[k].y]]

\* checkNodeSelection: the nodes, appState and pointer after a press at (x, y)
checkNodeSelection(ns, app, ptr, x, y) ==
    LET k == hitIndex(ns, x, y)
        moved == [ptr EXCEPT !.mouseX = x, !.mouseY = y]
    IN IF k = 0 THEN [nodes |-> ns, appState |-> app, pointer |-> moved]
       ELSE [nodes |-> [ns EXCEPT ![k].isDragged = TRUE],
             appState |-> [app EXCEPT !.isDragging = TRUE,
                                      !.selectedNode = ns[k].id],
             pointer |-> [moved EXCEPT !.offsetX = x - ns[k].x,
                                       !.offsetY = y - ns[k].y]]

dragClampMutantMargin(v, radius, size) ==
    Max(2 * radius, Min(size * PosScale - 2 * radius, v))

\* Math.max(node.radius, Math.min(canvas.width - node.radius, v))
dragClamp(v, radius, size) == Max(radius, Min(size * PosScale - radius, v))

\* The selected node put at the pointer minus the press offset, clamped
dragSelected(ns, app, ptr, cv) ==
    IF app.isDragging /\ app.selectedNode # Null
    THEN LET k == nodeIndex(ns, app.selectedNode)
         IN [ns EXCEPT
               ![k].x = dragClamp(ptr.mouseX - ptr.offsetX, ns[k].radius, cv.width),
               ![k].y = dragClamp(ptr.mouseY - ptr.offsetY, ns[k].radius, cv.height)]
    ELSE ns

\* handleMouseMove: hover state, then the drag
handleMouseMoveMutantHoverDragged(ns, app, ptr, cv, x, y) ==
    LET moved == [ptr EXCEPT !.mouseX = x, !.mouseY = y]
        cleared == [i \in 1..Len(ns) |-> [ns[i] EXCEPT !.isHovered = FALSE]]
        k == hitIndex(cleared, x, y)
        hovered == IF k # 0
                   THEN [cleared EXCEPT ![k].isHovered = TRUE]
                   ELSE cleared
    IN [nodes |-> dragSelected(hovered, app, moved, cv), pointer |-> moved]

handleMouseMove(ns, app, ptr, cv, x, y) ==
    LET moved == [ptr EXCEPT !.mouseX = x, !.mouseY = y]
        cleared == [i \in 1..Len(ns) |-> [ns[i] EXCEPT !.isHovered = FALSE]]
        k == hitIndex(cleared, x, y)
        hovered == IF ~app.isDragging /\ k # 0
                   THEN [cleared EXCEPT ![k].isHovered = TRUE]
                   ELSE cleared
    IN [nodes |-> dragSelected(hovered, app, moved, cv), pointer |-> moved]

\* handleTouchMove with `touches` touch points
handleTouchMove(ns, app, ptr, cv, x, y, touches) ==
    IF touches = 1 /\ app.isDragging
    THEN LET moved == [ptr EXCEPT !.mouseX = x, !.mouseY = y]
         IN [nodes |-> dragSelected(ns, app, moved, cv), pointer |-> moved]
    ELSE [nodes |-> ns, pointer |-> ptr]

releaseMutantKeepFlag(ns, app) ==
    [nodes |-> ns,
     appState |-> [app EXCEPT !.isDragging = FALSE, !.selectedNode = Null]]

\* handleMouseUp and handleTouchEnd
release(ns, app) ==
    [nodes |-> IF app.selectedNode # Null
               THEN [ns EXCEPT ![nodeIndex(ns, app.selectedNode)].isDragged = FALSE]
               ELSE ns,
     appState |-> [app EXCEPT !.isDragging = FALSE, !.selectedNode = Null]]

-----------------------------------------------------------------------------
(* canvas.js animate and main.js renderNodes                               *)

forceLayoutInterval == 5000

\* deltaTime = timestamp - (appState.lastFrameTime || timestamp)
deltaTimeOf(app, timestamp) ==
    timestamp - (IF app.lastFrameTime = 0 THEN timestamp ELSE app.lastFrameTime)

isRenderedMutantAlways(deltaTime) == TRUE

\* deltaTime >= appState.frameInterval, frameInterval = 1000 / 60
isRendered(deltaTime) == deltaTime * 60 >= 1000

layoutDueMutantAlways(app, time) == TRUE

layoutDue(app, time) == time - app.lastForceLayoutTime > forceLayoutInterval

\* The .content element as document.querySelector and getBoundingClientRect
\* give it: NoElement when the page has none, else <<[left, top, width, height]>>
NoElement == <<>>

\* updateContentRect (main.js 27-40): contentRect is left as it is when the
\* page has no .content element
updateContentRect(app, element) ==
    IF element = NoElement THEN app
    ELSE LET rect == element[1]
         IN [app EXCEPT !.contentRect =
                <<[left |-> rect.left, right |-> rect.left + rect.width,
                   top |-> rect.top, bottom |-> rect.top + rect.height,
                   width |-> rect.width, height |-> rect.height]>>]

renderBeginMutantLayoutOnly(ns, app, cv, time, deltaTime, element) ==
    IF layoutDue(app, time)
    THEN applyForceLayout(ns, cv.width, cv.height,
                          updateContentRect(app, element).contentRect, GENTLE)
    ELSE [i \in 1..Len(ns) |->
            dampen(updatePosition(ns[i], cv.width, cv.height, deltaTime))]

\* renderNodes up to the node updates: the gentle layout pass when it is due,
\* around the rectangle updateContentRect has just read, position
\* integration, velocity damping
renderBegin(ns, app, cv, time, deltaTime, element) ==
    LET laid == IF layoutDue(app, time)
                THEN applyForceLayout(ns, cv.width, cv.height,
                                      updateContentRect(app, element).contentRect,
                                      GENTLE)
                ELSE ns
        movedNodes == updatePositions(laid, cv.width, cv.height, deltaTime)
    IN [i \in 1..Len(ns) |-> dampen(movedNodes[i])]

-----------------------------------------------------------------------------
(* The state before initApp has run                                        *)

\* The record of the handler that ran last. `index` is the index of the node
\* updated last in a frame, and the number of touch points of a touch event.
Event(name, x, y, time, deltaTime, rendered, layout, index) ==
    [name |-> name, x |-> x, y |-> y, time |-> time, deltaTime |-> deltaTime,
     rendered |-> rendered, layout |-> layout, index |-> index]

noEvent == Event("none", 0, 0, 0, 0, FALSE, FALSE, 0)

noCounts == [frames |-> 0, inputs |-> 0, layouts |-> 0]

initialAppState ==
    [isDragging |-> FALSE, selectedNode |-> Null,
     lastFrameTime |-> 0, lastForceLayoutTime |-> 0, contentRect |-> NoRect]

initialPointer == [mouseX |-> 0, mouseY |-> 0, offsetX |-> 0, offsetY |-> 0]

-----------------------------------------------------------------------------
(* SpecNet: createNetwork, step by step, on every canvas of                *)
(* NetCanvasSizes. createNodes reads a mixed stream that starts at a value *)
(* of NodeSeeds, initializeConnections a mixed stream that starts at a     *)
(* value up to MaxSeed or a call stream.                                   *)

MaxSeed == 4095

NodeSeeds == {0, 63729}

WiringStreams(numNodes) ==
    {MixedStream(v, 5 * numNodes) : v \in 0..MaxSeed} \cup CallStreams

\* Canvases small enough for the minimum node count (15) and one above it (18)
NetCanvasSizes == {[width |-> 100, height |-> 60], [width |-> 92, height |-> 92]}

InitNet ==
    /\ nodes = <<>>
    /\ pulsePool = <<>>
    /\ allocated = 0
    /\ appState = initialAppState
    /\ pointer = initialPointer
    /\ canvas \in NetCanvasSizes
    /\ pc = "createNodes"
    /\ iterations = 0
    /\ event = noEvent
    /\ counts = noCounts
    /\ lastRenderTime = 0

CreateNodes ==
    /\ pc = "createNodes"
    /\ LET numNodes == calculateOptimalNodeCount(canvas.width, canvas.height)
       IN \E v \in NodeSeeds :
             nodes' = createNodes(<<>>, 0, numNodes, canvas.width, canvas.height,
                                  MixedStream(v, 6 * numNodes)).nodes
    /\ pc' = "initializeConnections"
    /\ UNCHANGED <<pulsePool, allocated, appState, pointer, canvas, iterations,
                   event, counts, lastRenderTime>>

InitializeConnections ==
    /\ pc = "initializeConnections"
    /\ \E s \in WiringStreams(Len(nodes)) :
          nodes' = initializeConnections(nodes, s).nodes
    /\ pc' = "optimizeNetwork"
    /\ iterations' = 0
    /\ UNCHANGED <<pulsePool, allocated, appState, pointer, canvas, event,
                   counts, lastRenderTime>>

OptimizePassMutantNoLimit ==
    /\ pc = "optimizeNetwork"
    /\ LET r == removeUnconnectedNodes(nodes)
       IN /\ nodes' = r.nodes
          /\ iterations' = IF r.hasRemovedNodes THEN iterations + 1 ELSE iterations
          /\ pc' = IF ~r.hasRemovedNodes THEN "built" ELSE "optimizeNetwork"
    /\ UNCHANGED <<pulsePool, allocated, appState, pointer, canvas,
                   event, counts, lastRenderTime>>

\* One turn of optimizeNetwork's while loop; the loop ends when a pass removes
\* nothing or after MAX_ITERATIONS passes, and createNetwork returns.
OptimizePass ==
    /\ pc = "optimizeNetwork"
    /\ iterations < MAX_ITERATIONS
    /\ LET r == removeUnconnectedNodes(nodes)
       IN /\ nodes' = r.nodes
          /\ iterations' = IF r.hasRemovedNodes THEN iterations + 1 ELSE iterations
          /\ pc' = IF ~r.hasRemovedNodes \/ iterations + 1 >= MAX_ITERATIONS
                   THEN "built" ELSE "optimizeNetwork"
    /\ UNCHANGED <<pulsePool, allocated, appState, pointer, canvas,
                   event, counts, lastRenderTime>>

NextNet == CreateNodes \/ InitializeConnections \/ OptimizePass

SpecNet == InitNet /\ [][NextNet]_vars

-----------------------------------------------------------------------------
(* Spec: the session after initApp. The network is the one createNetwork   *)
(* builds on the start canvas from the mixed stream that starts at a value *)
(* of SessionSeeds, laid out by the initial strong pass around the content *)
(* rectangle. Input events run to completion between frames; a             *)
(* frame callback runs renderNodes up to the node updates and then one     *)
(* node.update at a time, with no other handler in between.                *)

StartCanvas == [width |-> 100, height |-> 60]

\* First values of streams whose networks are small: 63729 gives S,S,S -> P -> D
SessionSeeds == {63729}

\* The mixed stream createNetwork reads on canvas cv, starting at v
networkStream(cv, v) ==
    MixedStream(v, networkDraws(calculateOptimalNodeCount(cv.width, cv.height)))

\* The .content element: none, or a box of 20 x 16 px left of the centre of
\* the start canvas
ContentElements ==
    {NoElement,
     <<[left |-> 15 * PosScale, top |-> 22 * PosScale,
        width |-> 20 * PosScale, height |-> 16 * PosScale]>>}

\* Line 57 of initApp: the initial layout of the network, around the content
\* rectangle of app
laidOut(net, cv, app) ==
    [nodes |-> applyForceLayout(net.nodes, cv.width, cv.height, app.contentRect,
                                STRONG),
     appState |-> app]

\* initApp: updateContentRect, createNetwork, then the initial layout
initApp(cv, s, element) ==
    laidOut(createNetwork(cv.width, cv.height, s), cv,
            updateContentRect(initialAppState, element))

MaxFrames == 2
MaxInputs == 3

\* Time between two frame callbacks, in ms: a 60 Hz frame, and a pause long
\* enough for the periodic layout to fall due
FrameDeltas == {17, 5001}

\* Window sizes after a resize: one larger and one smaller than StartCanvas
ResizeCanvases == {[width |-> 400, height |-> 300], [width |-> 60, height |-> 52]}

\* Where the pointer goes down: near the centre of a node, or on no node
PressPoints ==
    {[x |-> nodes[k].x + 3 * PosScale, y |-> nodes[k].y - 2 * PosScale] :
        k \in 1..Len(nodes)}
    \cup {[x |-> 0, y |-> 0]}

\* Where the pointer moves to: two corners of the canvas and an inner point
MovePoints ==
    {[x |-> 0, y |-> 0],
     [x |-> canvas.width * PosScale, y |-> canvas.height * PosScale],
     [x |-> 40 * PosScale, y |-> 31 * PosScale]}

InitSession(seeds, elements) ==
    /\ canvas = StartCanvas
    /\ \E v \in seeds, element \in elements :
          \E app \in {initApp(canvas, networkStream(canvas, v), element)} :
              nodes = app.nodes /\ appState = app.appState
    /\ pulsePool = <<>>
    /\ allocated = 0
    /\ pointer = initialPointer
    /\ pc = "idle"
    /\ iterations = 0
    /\ event = noEvent
    /\ counts = noCounts
    /\ lastRenderTime = 0

Init == InitSession(SessionSeeds, ContentElements)

\* The node array and the pulse pool, with the stream s for the Math.random
\* calls of the handler that is about to run
world(s) == [nodes |-> nodes, pool |-> pulsePool, allocated |-> allocated, seed |-> s]

\* animate and renderNodes up to the first node.update; `element` is what
\* updateContentRect finds when the layout is due
AnimateBegin(dt, element) ==
    /\ pc = "idle"
    /\ LET timestamp == appState.lastFrameTime + dt
           deltaTime == deltaTimeOf(appState, timestamp)
           rendered == isRendered(deltaTime)
           due == rendered /\ layoutDue(appState, timestamp)
       IN /\ nodes' = IF rendered
                      THEN renderBegin(nodes, appState, canvas, timestamp, deltaTime,
                                       element)
                      ELSE nodes
          /\ appState' = [(IF due THEN updateContentRect(appState, element)
                           ELSE appState) EXCEPT
                            !.lastFrameTime = timestamp,
                            !.lastForceLayoutTime = IF due THEN timestamp ELSE @]
          /\ event' = Event("frame", 0, 0, timestamp, deltaTime, rendered, due, 0)
          /\ pc' = IF rendered THEN "update" ELSE "idle"
          /\ lastRenderTime' = IF rendered THEN timestamp ELSE lastRenderTime
    /\ counts' = [counts EXCEPT !.frames = @ + 1]
    /\ UNCHANGED <<pulsePool, allocated, pointer, canvas, iterations>>

\* node.update(time, deltaTime) of the next node of the forEach, its
\* Math.random calls reading the stream s
UpdateNode(s) ==
    /\ pc = "update"
    /\ LET k == event.index + 1
           w == update(world(s), k, event.time, event.deltaTime)
       IN /\ nodes' = w.nodes
          /\ pulsePool' = w.pool
          /\ allocated' = w.allocated
          /\ event' = [event EXCEPT !.name = "update", !.index = k]
          /\ pc' = IF k = Len(nodes) THEN "idle" ELSE "update"
    /\ UNCHANGED <<appState, pointer, canvas, iterations, counts,
                   lastRenderTime>>

\* An input handler ran: `touches` is the number of touch points of a touch
\* event, 0 for a mouse event
Input(name, x, y, touches, r) ==
    /\ nodes' = r.nodes
    /\ appState' = r.appState
    /\ pointer' = r.pointer
    /\ event' = Event(name, x, y, appState.lastFrameTime, 0, FALSE, FALSE, touches)
    /\ counts' = [counts EXCEPT !.inputs = @ + 1]
    /\ UNCHANGED <<pulsePool, allocated, canvas, pc, iterations,
                   lastRenderTime>>

MouseDown(x, y) ==
    /\ pc = "idle"
    /\ Input("mousedown", x, y, 0, checkNodeSelection(nodes, appState, pointer, x, y))

MouseMove(x, y) ==
    /\ pc = "idle"
    /\ LET r == handleMouseMove(nodes, appState, pointer, canvas, x, y)
       IN Input("mousemove", x, y, 0,
                [nodes |-> r.nodes, appState |-> appState, pointer |-> r.pointer])

MouseUp ==
    /\ pc = "idle"
    /\ LET r == release(nodes, appState)
       IN Input("mouseup", 0, 0, 0,
                [nodes |-> r.nodes, appState |-> r.appState, pointer |-> pointer])

\* handleTouchStart: a press when exactly one finger is down
TouchStart(x, y, touches) ==
    /\ pc = "idle"
    /\ Input("touchstart", x, y, touches,
             IF touches = 1
             THEN checkNodeSelection(nodes, appState, pointer, x, y)
             ELSE [nodes |-> nodes, appState |-> appState, pointer |-> pointer])

TouchMove(x, y, touches) ==
    /\ pc = "idle"
    /\ LET r == handleTouchMove(nodes, appState, pointer, canvas, x, y, touches)
       IN Input("touchmove", x, y, touches,
                [nodes |-> r.nodes, appState |-> appState, pointer |-> r.pointer])

\* touchend and touchcancel
TouchEnd ==
    /\ pc = "idle"
    /\ LET r == release(nodes, appState)
       IN Input("touchend", 0, 0, 0,
                [nodes |-> r.nodes, appState |-> r.appState, pointer |-> pointer])

ResizeMutantRebuild(cv, element) ==
    /\ pc = "idle"
    /\ canvas' = cv
    /\ appState' = updateContentRect(appState, element)
    /\ \E net \in {createNetwork(cv.width, cv.height, networkStream(cv, 0))} :
          nodes' = net.nodes
    /\ event' = Event("resize", cv.width, cv.height, appState.lastFrameTime, 0,
                      FALSE, TRUE, 0)
    /\ counts' = [counts EXCEPT !.inputs = @ + 1]
    /\ UNCHANGED <<pulsePool, allocated, pointer, pc, iterations, lastRenderTime>>

ResizeMutantStaleSize(cv, element) ==
    /\ pc = "idle"
    /\ canvas' = cv
    /\ appState' = updateContentRect(appState, element)
    /\ nodes' = applyForceLayout(nodes, canvas.width, canvas.height,
                                 updateContentRect(appState, element).contentRect,
                                 STRONG)
    /\ event' = Event("resize", cv.width, cv.height, appState.lastFrameTime, 0,
                      FALSE, TRUE, 0)
    /\ counts' = [counts EXCEPT !.inputs = @ + 1]
    /\ UNCHANGED <<pulsePool, allocated, pointer, pc, iterations, lastRenderTime>>

\* The window resize listener of initApp: the canvas takes the new size,
\* updateContentRect reads the element and the strong layout pass runs
Resize(cv, element) ==
    /\ pc = "idle"
    /\ canvas' = cv
    /\ appState' = updateContentRect(appState, element)
    /\ nodes' = applyForceLayout(nodes, cv.width, cv.height,
                                 updateContentRect(appState, element).contentRect,
                                 STRONG)
    /\ event' = Event("resize", cv.width, cv.height, appState.lastFrameTime, 0,
                      FALSE, TRUE, 0)
    /\ counts' = [counts EXCEPT !.inputs = @ + 1]
    /\ UNCHANGED <<pulsePool, allocated, pointer, pc, iterations, lastRenderTime>>

\* document.querySelector('.content') of a page whose .content element, if it
\* has one, is where updateContentRect found it last
contentElement(app) ==
    IF app.contentRect = NoRect THEN NoElement
    ELSE <<[left |-> app.contentRect[1].left, top |-> app.contentRect[1].top,
            width |-> app.contentRect[1].width,
            height |-> app.contentRect[1].height]>>

NextFrame ==
    /\ counts.frames < MaxFrames
    /\ \E dt \in FrameDeltas : AnimateBegin(dt, contentElement(appState))

NextUpdate == \E s \in CallStreams : UpdateNode(s)

NextMouse ==
    /\ counts.inputs < MaxInputs
    /\ \/ \E p \in PressPoints : MouseDown(p.x, p.y)
       \/ \E p \in MovePoints : MouseMove(p.x, p.y)
       \/ MouseUp

NextTouch ==
    /\ counts.inputs < MaxInputs
    /\ \/ \E p \in PressPoints, touches \in {1, 2} : TouchStart(p.x, p.y, touches)
       \/ \E p \in MovePoints, touches \in {1, 2} : TouchMove(p.x, p.y, touches)
       \/ TouchEnd

NextResize ==
    /\ counts.inputs < MaxInputs
    /\ \E cv \in ResizeCanvases : Resize(cv, contentElement(appState))

Next == NextFrame \/ NextUpdate \/ NextMouse \/ NextTouch \/ NextResize

Spec == Init /\ [][Next]_vars

-----------------------------------------------------------------------------
(* SpecResize: the mouse and the resize listener alone, with windows       *)
(* larger and smaller than the start canvas and windows that are narrower  *)
(* or lower than the larger entities are wide.                             *)

\* Window sizes after a resize: those of ResizeCanvases, one that is wider
\* than twice the radius of some entities only (twice the radius is 15.25 px
\* to 24.5 px), and one that is wide enough for all and high enough for none
WindowSizes ==
    ResizeCanvases \cup {[width |-> 20, height |-> 16], [width |-> 100, height |-> 15]}

NextWindow ==
    /\ counts.inputs < MaxInputs
    /\ \E cv \in WindowSizes : Resize(cv, contentElement(appState))

NextResizing == NextMouse \/ NextWindow

SpecResize == Init /\ [][NextResizing]_vars

-----------------------------------------------------------------------------
(* Claims about the network builder                                        *)

NonSourcesHaveIncoming(ns) ==
    \A i \in 1..Len(ns) :
        ns[i].type # "source" => ns[i].id \in hasIncoming(ns)

\* C1: when createNetwork has returned, every node that is not a source is
\* the target of a connection of a node of the returned network.
C1_PruningInvariant == pc = "built" => NonSourcesHaveIncoming(nodes)

NoSelfNoDuplicate(ns) ==
    \A i \in 1..Len(ns) :
        /\ ns[i].id \notin Range(ns[i].connections)
        /\ \A j, k \in 1..Len(ns[i].connections) :
               j # k => ns[i].connections[j] # ns[i].connections[k]

\* C2: after wiring and after every pruning pass no connections list holds
\* its own node or the same target twice.
C2_NoSelfNoDuplicate == NoSelfNoDuplicate(nodes)

\* C2 witness: a built network, pruned at least once, with a node that holds
\* three connections.
C2_Witness ==
    /\ pc = "built"
    /\ iterations >= 1
    /\ \E i \in 1..Len(nodes) : Len(nodes[i].connections) >= 3

-----------------------------------------------------------------------------
(* SpecLayout: applyForceLayout called directly, with strength 0, 0.5 and  *)
(* 1.5, on the networks of LayoutSeeds, between presses, moves and         *)
(* releases of the mouse.                                                  *)

LayoutSeeds == {63729}

Strengths == {0, GENTLE, STRONG}

MaxLayouts == 2

\* The contentRect argument: null, and the rectangle of ContentElements
LayoutRects ==
    {updateContentRect(initialAppState, element).contentRect :
        element \in ContentElements}

InitLayout == InitSession(LayoutSeeds, {NoElement})

Layout(strength10, contentRect) ==
    /\ pc = "idle"
    /\ nodes' = applyForceLayout(nodes, canvas.width, canvas.height, contentRect,
                                 strength10)
    /\ event' = Event("layout", strength10, 0, appState.lastFrameTime, 0, FALSE,
                      TRUE, 0)
    /\ counts' = [counts EXCEPT !.layouts = @ + 1]
    /\ UNCHANGED <<pulsePool, allocated, appState, pointer, canvas, pc,
                   iterations, lastRenderTime>>

NextLayoutCall ==
    /\ counts.layouts < MaxLayouts
    /\ \E s10 \in Strengths, contentRect \in LayoutRects : Layout(s10, contentRect)

NextLayout == NextLayoutCall \/ NextMouse

SpecLayout == InitLayout /\ [][NextLayout]_vars

-----------------------------------------------------------------------------
(* SpecPulse: frames taken one Node.update at a time, at a steady frame    *)
(* rate, on the networks of PulseSeeds. SpecScenario: the same on the      *)
(* three-node network S -> P -> D.                                         *)

\* 24647 gives S,S,S -> P -> D with one source active from the start and one
\* that fades in during the session
PulseSeeds == {24647}

\* Time between two frame callbacks, in ms
PulseDeltas == {500}

MaxPulseFrames == 20

\* The page of the pulse sessions has no .content element
PulseElements == {NoElement}

NextAnimate ==
    /\ counts.frames < MaxPulseFrames
    /\ \E dt \in PulseDeltas, element \in PulseElements : AnimateBegin(dt, element)

NextPulse == NextAnimate \/ NextUpdate

InitPulse == InitSession(PulseSeeds, PulseElements)

SpecPulse == InitPulse /\ [][NextPulse]_vars

MaxScenarioSeed == 7

\* Source 1 -> Process 2 -> Destination 3, side by side on the start canvas;
\* each constructor draws from the Math.random stream
scenarioNetwork(s) ==
    LET radius == 10 * PosScale
        y == 30 * PosScale
        S == NewNode(1, 25 * PosScale, y, radius, "source", s)
        P == NewNode(2, 50 * PosScale, y, radius, "process", SkipRandom(s, 3))
        D == NewNode(3, 75 * PosScale, y, radius, "destination", SkipRandom(s, 6))
    IN [nodes |-> <<[S EXCEPT !.connections = connect(@, 2)],
                    [P EXCEPT !.connections = connect(@, 3)], D>>,
        seed |-> SkipRandom(s, 9)]

InitScenario ==
    /\ canvas = StartCanvas
    /\ \E v \in 0..MaxScenarioSeed :
          \E app \in {laidOut(scenarioNetwork(MixedStream(v, 9)), canvas,
                               initialAppState)} :
              nodes = app.nodes /\ appState = app.appState
    /\ pulsePool = <<>>
    /\ allocated = 0
    /\ pointer = initialPointer
    /\ pc = "idle"
    /\ iterations = 0
    /\ event = noEvent
    /\ counts = noCounts
    /\ lastRenderTime = 0

SpecScenario == InitScenario /\ [][NextPulse]_vars

-----------------------------------------------------------------------------
(* SpecPool: the pulse pool under its two callers, sendRandomImpulse and   *)
(* updatePulses. Sources 1 and 2 are connected to destination 3. The       *)
(* session starts with some pulses under way and some already recycled.    *)

\* Lines 181-191 of sendRandomImpulse: createPulse, push, pending work down
launch(w, i, target, speed) ==
    LET c == createPulse(w.pool, w.allocated, w.nodes[i].id, target, speed)
    IN [w EXCEPT !.nodes[i] = emit(@, c.pulse),
                 !.pool = c.pool,
                 !.allocated = c.allocated]

\* Lines 203-226 of updatePulses for the pulse at index j of node i, which
\* deltaTime takes to its target
retire(w, i, j, deltaTime) ==
    arrive([w EXCEPT !.nodes[i].pulses[j] = advance(@, deltaTime)], i, j)

\* Time between two frames, in ms: 751 takes a pulse of speed 0.0222 or more
\* from progress 0 to its target, 10000 every pulse
CompletionDeltas == {751, 10000}

poolNetwork(s) ==
    LET radius == 10 * PosScale
        y == 30 * PosScale
        A == NewNode(1, 25 * PosScale, y, radius, "source", s)
        B == NewNode(2, 50 * PosScale, y, radius, "source", SkipRandom(s, 3))
        D == NewNode(3, 75 * PosScale, y, radius, "destination", SkipRandom(s, 6))
    IN [nodes |-> <<[A EXCEPT !.connections = connect(@, 3)],
                    [B EXCEPT !.connections = connect(@, 3)], D>>,
        pool |-> <<>>, allocated |-> 0, seed |-> SkipRandom(s, 9)]

\* Node 1 launches n pulses to its connection, one after the other, each
\* faster than the one before
RECURSIVE launched(_, _)
launched(w, n) ==
    IF n = 0 \/ w.nodes[1].connections = <<>> THEN w
    ELSE IF n = 1
    THEN launch(w, 1, w.nodes[1].connections[1], 2000 + 200 * (w.allocated % 110))
    ELSE launched(launched(w, n \div 2), n - n \div 2)

\* The last n pulses of node 1 reach their target, the last one first
RECURSIVE retired(_, _)
retired(w, n) ==
    IF n = 0 \/ w.nodes[1].pulses = <<>> THEN w
    ELSE IF n = 1 THEN retire(w, 1, Len(w.nodes[1].pulses), 10000)
    ELSE retired(retired(w, n \div 2), n - n \div 2)

\* Pulses under way and pulses in the pool when the observation starts
FlightLoads == {0, 2, 102}
PoolLoads == {0, 1, 99, 100}

MaxPoolCalls == 2

InitPool ==
    /\ canvas = StartCanvas
    /\ \E f \in FlightLoads, p \in PoolLoads :
          \E w \in {retired(launched(poolNetwork(MixedStream(0, 9)), f + p), p)} :
              /\ nodes = w.nodes
              /\ pulsePool = w.pool
              /\ allocated = w.allocated
    /\ appState = initialAppState
    /\ pointer = initialPointer
    /\ pc = "idle"
    /\ iterations = 0
    /\ event = noEvent
    /\ counts = noCounts
    /\ lastRenderTime = 0

\* node.updatePulses(deltaTime) of the node at index i, its Math.random calls
\* reading the stream s
UpdatePulses(i, deltaTime, s) ==
    /\ counts.frames < MaxPoolCalls
    /\ \E w \in {updatePulses(world(s), i, deltaTime)} :
          /\ nodes' = w.nodes
          /\ pulsePool' = w.pool
          /\ allocated' = w.allocated
    /\ event' = Event("updatePulses", 0, 0, 0, deltaTime, FALSE, FALSE, i)
    /\ counts' = [counts EXCEPT !.frames = @ + 1]
    /\ UNCHANGED <<appState, pointer, canvas, pc, iterations, lastRenderTime>>

-----------------------------------------------------------------------------
(* SpecClamp: enforceBoundaries and updatePositions applied to one node,   *)
(* for positions inside, on and outside the margins, velocities of both    *)
(* signs, and canvases down to one that is narrower than four radii.       *)

\* Coordinates, in 1/PosScale px: -10, 6.25, 25, 40, 56.25 and 106.25 px
ClampPositions == {-160, 100, 400, 640, 900, 1700}

\* Velocities, in 1/VelScale px; -128 moves a node by less than 1/PosScale px
\* in a frame of 17 ms
ClampVelocities == {-808, -128, 0, 512}

\* Radii, in 1/PosScale px: 5 px and 12.5 px
ClampRadii == {80, 200}

ClampCanvases ==
    {StartCanvas, [width |-> 60, height |-> 52], [width |-> 40, height |-> 30]}

\* Time between two frame callbacks, in ms
ClampDeltas == {17, 5001}

MaxClampCalls == 2

InitClamp ==
    /\ canvas \in ClampCanvases
    /\ \E x \in ClampPositions, y \in ClampPositions, vx \in ClampVelocities,
          vy \in ClampVelocities, radius \in ClampRadii :
          nodes = <<[NewNode(1, x, y, radius, "process", MixedStream(0, 3))
                        EXCEPT !.vx = vx, !.vy = vy]>>
    /\ pulsePool = <<>>
    /\ allocated = 0
    /\ appState = initialAppState
    /\ pointer = initialPointer
    /\ pc = "idle"
    /\ iterations = 0
    /\ event = noEvent
    /\ counts = noCounts
    /\ lastRenderTime = 0

\* The last loop of applyForceLayout, on the one node
EnforceBoundaries ==
    /\ counts.layouts < MaxClampCalls
    /\ nodes' = [k \in 1..Len(nodes) |->
                    enforceBoundaries(nodes[k], canvas.width, canvas.height)]
    /\ event' = Event("enforceBoundaries", 0, 0, 0, 0, FALSE, TRUE, 0)
    /\ counts' = [counts EXCEPT !.layouts = @ + 1]
    /\ UNCHANGED <<pulsePool, allocated, appState, pointer, canvas, pc,
                   iterations, lastRenderTime>>

\* updatePositions of a frame that comes deltaTime after the one before
UpdatePositions(deltaTime) ==
    /\ counts.layouts < MaxClampCalls
    /\ nodes' = updatePositions(nodes, canvas.width, canvas.height, deltaTime)
    /\ event' = Event("updatePositions", 0, 0, 0, deltaTime, TRUE, FALSE, 0)
    /\ counts' = [counts EXCEPT !.layouts = @ + 1]
    /\ UNCHANGED <<pulsePool, allocated, appState, pointer, canvas, pc,
                   iterations, lastRenderTime>>

NextUpdatePositions == \E dt \in ClampDeltas : UpdatePositions(dt)

NextClamp == EnforceBoundaries \/ NextUpdatePositions

SpecClamp == InitClamp /\ [][NextClamp]_vars

-----------------------------------------------------------------------------
(* SpecEmit: sendRandomImpulse called on each node of the network          *)
(* S -> P -> D, for random streams up to MaxEmitSeed, with P and D at      *)
(* several points of their fade-in and P with and without pending work.    *)

\* The opacity of a node n update steps after it started to fade in from 0.3
RECURSIVE fadeIn(_)
fadeIn(n) ==
    IF n = 0 THEN (3 * OpacityScale) \div 10
    ELSE relaxOpacity(fadeIn(n - 1), OpacityScale)

\* Dormant, the last step at or below 0.5, the first step above 0.5, opaque
EmitOpacities == {fadeIn(0), fadeIn(6), fadeIn(7), OpacityScale}

\* processingPulses of the process node
EmitPending == {0, 2}

MaxEmitSeed == 63

MaxEmits == 2

\* The node with the given opacity, and the active flag that goes with it
withOpacity(node, opacity) ==
    [node EXCEPT !.opacity = opacity, !.targetOpacity = OpacityScale,
                 !.active = 10 * opacity > 7 * OpacityScale]

InitEmit ==
    /\ canvas = StartCanvas
    /\ \E v \in 0..MaxEmitSeed, opacity \in EmitOpacities, pending \in EmitPending :
          \E net \in {scenarioNetwork(MixedStream(v, 9))} :
              nodes = [net.nodes EXCEPT
                         ![2] = [withOpacity(@, opacity) EXCEPT
                                   !.processingPulses = pending],
                         ![3] = withOpacity(@, opacity)]
    /\ pulsePool = <<>>
    /\ allocated = 0
    /\ appState = initialAppState
    /\ pointer = initialPointer
    /\ pc = "idle"
    /\ iterations = 0
    /\ event = noEvent
    /\ counts = noCounts
    /\ lastRenderTime = 0

\* node.sendRandomImpulse() of the node at index i, its Math.random calls
\* reading the stream s
SendRandomImpulse(i, s) ==
    /\ counts.layouts < MaxEmits
    /\ \E w \in {sendRandomImpulse(world(s), i)} :
          /\ nodes' = w.nodes
          /\ pulsePool' = w.pool
          /\ allocated' = w.allocated
    /\ event' = Event("sendRandomImpulse", 0, 0, 0, 0, FALSE, FALSE, i)
    /\ counts' = [counts EXCEPT !.layouts = @ + 1]
    /\ UNCHANGED <<appState, pointer, canvas, pc, iterations, lastRenderTime>>

NextEmit == \E i \in 1..Len(nodes), s \in CallStreams : SendRandomImpulse(i, s)

SpecEmit == InitEmit /\ [][NextEmit]_vars

\* SpecPool: no node of its network is a process, so updatePulses makes no
\* Math.random call and one stream stands for all
NextUpdatePulses ==
    \E i \in {1, 2}, dt \in CompletionDeltas : UpdatePulses(i, dt, MixedStream(0, 1))

NextPool == NextEmit \/ NextUpdatePulses

SpecPool == InitPool /\ [][NextPool]_vars

-----------------------------------------------------------------------------
(* SpecCount: createNodes on canvases from empty to 1600 x 1600, which     *)
(* cover both ends of the node count range and the steps between them.     *)

CountDimensions == {0, 60, 79, 80, 100, 249, 250, 251, 400, 1000, 1600}

InitCount ==
    /\ nodes = <<>>
    /\ pulsePool = <<>>
    /\ allocated = 0
    /\ appState = initialAppState
    /\ pointer = initialPointer
    /\ canvas \in [width : CountDimensions, height : CountDimensions]
    /\ pc = "createNodes"
    /\ iterations = 0
    /\ event = noEvent
    /\ counts = noCounts
    /\ lastRenderTime = 0

SpecCount == InitCount /\ [][CreateNodes]_vars

-----------------------------------------------------------------------------
(* SpecForce: the iterations of the loops of applyNodeRepulsion and        *)
(* applyConnectionAttractions on the network S -> P -> D, its three nodes  *)
(* placed on the points of ForcePoints: apart, one pixel apart, and on the *)
(* same point, with none or one of them being dragged. The forces that     *)
(* applyForces adds before them, applyContentRepulsion and                 *)
(* applyEdgeForces, are not part of this specification.                    *)

ForcePoints ==
    {[x |-> 25 * PosScale, y |-> 30 * PosScale],
     [x |-> 25 * PosScale, y |-> 31 * PosScale],
     [x |-> 50 * PosScale, y |-> 30 * PosScale],
     [x |-> 75 * PosScale, y |-> 15 * PosScale]}

\* Velocity, on both axes, of every node before the computation
ForceVelocities == {0, 24}

MaxForceCalls == 2

InitForce ==
    /\ canvas = StartCanvas
    /\ \E p1, p2, p3 \in ForcePoints, v \in ForceVelocities, dragged \in 0..3 :
          \E net \in {scenarioNetwork(MixedStream(0, 9))} :
              nodes = [k \in 1..3 |->
                         [net.nodes[k] EXCEPT
                            !.x = <<p1, p2, p3>>[k].x, !.y = <<p1, p2, p3>>[k].y,
                            !.vx = v, !.vy = v, !.isDragged = (k = dragged)]]
    /\ pulsePool = <<>>
    /\ allocated = 0
    /\ appState = initialAppState
    /\ pointer = initialPointer
    /\ pc = "idle"
    /\ iterations = 0
    /\ event = noEvent
    /\ counts = noCounts
    /\ lastRenderTime = 0

\* An iteration of one of the two loops has run for nodes a and b and left
\* the nodes ns; `index` of the event is the distance it divided by, in
\* 1/2^DistBits of 1/PosScale px, and 0 when it skipped the pair before
\* computing anything
Forced(name, a, b, strength10, ns, distance) ==
    /\ counts.layouts < MaxForceCalls
    /\ nodes' = ns
    /\ event' = Event(name, a, b, strength10, 0, FALSE, TRUE, distance)
    /\ counts' = [counts EXCEPT !.layouts = @ + 1]
    /\ UNCHANGED <<pulsePool, allocated, appState, pointer, canvas, pc,
                   iterations, lastRenderTime>>

\* The iteration of the loop of applyNodeRepulsion(nodeA, nodes, a, config)
\* for nodeA = nodes[a] and nodeB = nodes[b] (lines 285-304)
ApplyNodeRepulsion(a, b, strength10) ==
    IF nodes[b].isDragged
    THEN Forced("applyNodeRepulsion", a, b, strength10, nodes, 0)
    ELSE \E distance \in {pairDistance(nodes, a, b)} :
            Forced("applyNodeRepulsion", a, b, strength10,
                   repulsionOver(nodes, a, b, distance,
                                 layoutConfig(canvas.width, canvas.height,
                                              strength10)),
                   distance)

\* The iteration of the loops of applyConnectionAttractions for node =
\* nodes[i] and connected = nodes[c] (lines 314-335)
ApplyConnectionAttraction(i, c, strength10) ==
    IF nodes[i].isDragged \/ nodes[c].isDragged
    THEN Forced("applyConnectionAttractions", i, c, strength10, nodes, 0)
    ELSE \E distance \in {pairDistance(nodes, i, c)} :
            Forced("applyConnectionAttractions", i, c, strength10,
                   attractionOver(nodes, i, c, distance,
                                  layoutConfig(canvas.width, canvas.height,
                                               strength10)),
                   distance)

\* One iteration of one of the two loops, for either strength.
\* applyNodeRepulsion is called for the nodeA that are not being dragged only
\* (line 153 of applyForces)
NextForce ==
    \E strength10 \in {GENTLE, STRONG} :
        \/ \E a, b \in 1..Len(nodes) :
              /\ ~nodes[a].isDragged
              /\ a < b
              /\ ApplyNodeRepulsion(a, b, strength10)
        \/ \E i \in 1..Len(nodes) :
              \E j \in 1..Len(nodes[i].connections) :
                  ApplyConnectionAttraction(i, nodeIndex(nodes, nodes[i].connections[j]),
                                            strength10)

SpecForce == InitForce /\ [][NextForce]_vars

-----------------------------------------------------------------------------
(* SpecLoop: the frame loop alone, with callbacks that come faster than    *)
(* the frame interval, at the frame interval, and after long pauses.       *)

\* Time between two frame callbacks, in ms: a 120 Hz callback, a 60 Hz
\* callback, half the layout interval, and just over the layout interval
LoopDeltas == {8, 17, 2500, 5001}

MaxLoopFrames == 5

NextLoopFrame ==
    /\ counts.frames < MaxLoopFrames
    /\ \E dt \in LoopDeltas, element \in ContentElements : AnimateBegin(dt, element)

NextLoop == NextLoopFrame \/ NextUpdate

SpecLoop == Init /\ [][NextLoop]_vars

-----------------------------------------------------------------------------
(* Claims about the session                                                *)

InMargins(node, cv) ==
    /\ node.x >= 2 * node.radius
    /\ node.x <= cv.width * PosScale - 2 * node.radius
    /\ node.y >= 2 * node.radius
    /\ node.y <= cv.height * PosScale - 2 * node.radius

\* A rendered frame is past updatePositions: at its first node.update or later
renderedFrame == event.name \in {"frame", "update"} /\ event.rendered

\* C3, as stated: after a rendered frame every entity's x lies in
\* [2*radius, width - 2*radius] and its y in [2*radius, height - 2*radius]
C3_AllWithinMargins ==
    renderedFrame => \A k \in 1..Len(nodes) : InMargins(nodes[k], canvas)

\* C3, corrected: after a rendered frame every entity that is not being
\* dragged lies within [2*radius, dimension - 2*radius] on both axes
C3_UndraggedWithinMargins ==
    renderedFrame =>
        \A k \in 1..Len(nodes) : ~nodes[k].isDragged => InMargins(nodes[k], canvas)

\* A rendered frame after which an entity that is not dragged sits on the
\* margin, next to one that is dragged and lies outside it
C3_Witness ==
    /\ renderedFrame
    /\ \E k \in 1..Len(nodes) : nodes[k].isDragged /\ ~InMargins(nodes[k], canvas)
    /\ \E k \in 1..Len(nodes) :
          /\ ~nodes[k].isDragged
          /\ \/ nodes[k].x \in {2 * nodes[k].radius,
                                canvas.width * PosScale - 2 * nodes[k].radius}
             \/ nodes[k].y \in {2 * nodes[k].radius,
                                canvas.height * PosScale - 2 * nodes[k].radius}

dragMove ==
    /\ \/ event.name = "mousemove"
       \/ event.name = "touchmove" /\ event.index = 1
    /\ appState.isDragging
    /\ appState.selectedNode # Null

\* C4: after a mouse move or single-touch move handled while an entity is
\* selected and dragged, the entity is at the pointer minus the press offset,
\* clamped on each axis to [radius, canvas dimension - radius]
C4_DraggedFollowsPointer ==
    dragMove =>
        LET node == nodes[nodeIndex(nodes, appState.selectedNode)]
            wantX == event.x - pointer.offsetX
            wantY == event.y - pointer.offsetY
            maxX == canvas.width * PosScale - node.radius
            maxY == canvas.height * PosScale - node.radius
        IN /\ node.x = (IF wantX < node.radius THEN node.radius
                        ELSE IF wantX > maxX THEN maxX ELSE wantX)
           /\ node.y = (IF wantY < node.radius THEN node.radius
                        ELSE IF wantY > maxY THEN maxY ELSE wantY)

\* A drag move that the clamp cut short on one axis and left alone on the other
C4_Witness ==
    /\ dragMove
    /\ LET node == nodes[nodeIndex(nodes, appState.selectedNode)]
       IN \/ node.x = node.radius /\ node.y = event.y - pointer.offsetY
          \/ node.y = canvas.height * PosScale - node.radius
             /\ node.x = event.x - pointer.offsetX

\* C5, as stated: a layout pass leaves vx and vy of a dragged entity as they
\* were (the resize handler is one strong layout pass)
C5_DraggedVelocityKept ==
    [][event'.name = "resize" =>
         \A k \in 1..Len(nodes) :
            nodes[k].isDragged =>
                nodes'[k].vx = nodes[k].vx /\ nodes'[k].vy = nodes[k].vy]_vars

\* The resize listener has run the strong layout pass, of strength 1.5, with
\* the size the canvas has now and the content rectangle found now
strongPassRan ==
    /\ canvas' = [width |-> event'.x, height |-> event'.y]
    /\ nodes' = applyForceLayout(nodes, canvas'.width, canvas'.height,
                                 appState'.contentRect, 15)

\* C10, as stated: a resize runs the strong layout pass with the new canvas
\* size, and when the resize handler returns no entity, dragged or not, lies
\* outside the new canvas
C10_ResizeKeepsInside ==
    [][event'.name = "resize" =>
         /\ strongPassRan
         /\ \A k \in 1..Len(nodes') :
               /\ nodes'[k].x >= 0 /\ nodes'[k].x <= canvas'.width * PosScale
               /\ nodes'[k].y >= 0 /\ nodes'[k].y <= canvas'.height * PosScale]_vars

\* C10, amended: a resize runs the strong layout pass with the new canvas
\* size, and when the resize handler returns every entity, dragged or not,
\* lies within the new width if that is at least twice its radius, and at
\* width - 2 * radius, left of the canvas, if it is not; the same holds for
\* the height
C10_ResizeKeepsFitting ==
    [][event'.name = "resize" =>
         /\ strongPassRan
         /\ \A k \in 1..Len(nodes') :
               LET w == canvas'.width * PosScale
                   h == canvas'.height * PosScale
                   margin == 2 * nodes'[k].radius
               IN /\ IF w >= margin
                     THEN nodes'[k].x >= 0 /\ nodes'[k].x <= w
                     ELSE nodes'[k].x = w - margin
                  /\ IF h >= margin
                     THEN nodes'[k].y >= 0 /\ nodes'[k].y <= h
                     ELSE nodes'[k].y = h - margin]_vars

\* A resize to a window of 20 px has returned with a dragged entity that is
\* wider than the window, left of the canvas, and an undragged one that is
\* not, brought back to the far margin within the canvas
C10_Witness ==
    /\ event.name = "resize"
    /\ canvas.width = 20
    /\ \E k, j \in 1..Len(nodes) :
          /\ nodes[k].isDragged /\ ~nodes[j].isDragged
          /\ 2 * nodes[k].radius > canvas.width * PosScale
          /\ nodes[k].x < 0
          /\ nodes[j].x = canvas.width * PosScale - 2 * nodes[j].radius
          /\ nodes[j].x >= 0

-----------------------------------------------------------------------------
(* Claims about pulses, one Node.update at a time                          *)

allPulses ==
    UNION {{nodes[k].pulses[j] : j \in 1..Len(nodes[k].pulses)} : k \in 1..Len(nodes)}

\* C6: at the end of every update step every active pulse has its progress in
\* [0, 1), and from one step to the next the progress of a pulse that stays in
\* its owner's list does not decrease
C6_ProgressInRangeAndMonotone ==
    /\ [](\A p \in allPulses : p.progress >= 0 /\ p.progress < ProgressScale)
    /\ [][\A k \in 1..Len(nodes) :
            \A j \in 1..Len(nodes[k].pulses), i \in 1..Len(nodes'[k].pulses) :
                nodes[k].pulses[j].id = nodes'[k].pulses[i].id =>
                    nodes'[k].pulses[i].progress >= nodes[k].pulses[j].progress]_vars

\* An update step has left a pulse that is under way for the third step at
\* least, after another pulse has completed and been recycled
C6_Witness ==
    /\ event.name = "update"
    /\ pulsePool # <<>>
    /\ \E p \in allPulses :
          /\ p.progress > 2 * progressStep(p.speed, event.deltaTime)
          /\ p.progress < ProgressScale

\* The pulses of node k that the update step about to run takes to progress >= 1
completedIn(k) ==
    {j \in 1..Len(nodes[k].pulses) :
        nodes[k].pulses[j].progress
            + progressStep(nodes[k].pulses[j].speed, event.deltaTime)
        >= ProgressScale}

\* How many of them have node t as their target
arrivalsAt(k, t) ==
    Cardinality({j \in completedIn(k) : nodes[k].pulses[j].target = nodes[t].id})

\* C7, as stated: the update step of node k removes the pulses it completes
\* from k's list, and the pending-work counter of a target goes up by exactly
\* 1 for each of them
C7_TargetCounterUpByOne ==
    [][pc = "update" =>
         LET k == event.index + 1
         IN /\ \A j \in completedIn(k) :
                  \A i \in 1..Len(nodes'[k].pulses) :
                      nodes'[k].pulses[i].id # nodes[k].pulses[j].id
            /\ \A t \in 1..Len(nodes) :
                  arrivalsAt(k, t) > 0 =>
                      nodes'[t].processingPulses =
                          nodes[t].processingPulses + arrivalsAt(k, t)]_vars

\* C7, corrected: the update step of node k removes the pulses it completes
\* from k's list; the counter of a target goes up by 1 for each of them, and
\* down by 1 for each pulse the target forwards on arrival in that same step
C7_TargetCounterNet ==
    [][pc = "update" =>
         LET k == event.index + 1
         IN /\ \A j \in completedIn(k) :
                  \A i \in 1..Len(nodes'[k].pulses) :
                      nodes'[k].pulses[i].id # nodes[k].pulses[j].id
            /\ \A t \in 1..Len(nodes) :
                  arrivalsAt(k, t) > 0 =>
                      nodes'[t].processingPulses =
                          nodes[t].processingPulses + arrivalsAt(k, t)
                          - (Len(nodes'[t].pulses) - Len(nodes[t].pulses))]_vars

\* The pulse recycled last was completed by the node just updated
justCompleted(source, target) ==
    /\ event.name = "update"
    /\ nodes[event.index].id = source
    /\ pulsePool # <<>>
    /\ pulsePool[Len(pulsePool)].source = source
    /\ pulsePool[Len(pulsePool)].target = target
    /\ pulsePool[Len(pulsePool)].progress >= ProgressScale

\* A pulse has just completed at a process node that forwarded it at once: the
\* process node has a pulse with no progress and no pending work
C7_Witness ==
    \E k, t \in 1..Len(nodes) :
        /\ justCompleted(nodes[k].id, nodes[t].id)
        /\ nodes[t].type = "process"
        /\ nodes[t].processingPulses = 0
        /\ \E j \in 1..Len(nodes[t].pulses) : nodes[t].pulses[j].progress = 0

\* C9, as stated, for S = node 1, P = node 2, D = node 3: when the first pulse
\* from S completes, P's pending work is 1; when the first pulse from P
\* completes, D's pending work is 1, D is active and D's opacity is 1
C9_ScenarioAsStated ==
    [][pc = "update" =>
         LET k == event.index + 1
         IN /\ (k = 1 /\ arrivalsAt(1, 2) = 1 /\ nodes[2].processingPulses = 0) =>
                  nodes'[2].processingPulses = 1
            /\ (k = 2 /\ arrivalsAt(2, 3) = 1 /\ nodes[3].processingPulses = 0) =>
                  /\ nodes'[3].processingPulses = 1
                  /\ nodes'[3].active
                  /\ nodes'[3].opacity = OpacityScale]_vars

\* C9, corrected: when the first pulse from S completes, P's pending work is 1
\* if P keeps the pulse and 0 if P forwards it to D in that same step; when the
\* first pulse from P completes, at the end of that update step D's pending
\* work is 1, D is active and D's opacity is 1
C9_ScenarioForwarding ==
    [][pc = "update" =>
         LET k == event.index + 1
         IN /\ (k = 1 /\ arrivalsAt(1, 2) = 1 /\ nodes[2].processingPulses = 0) =>
                  nodes'[2].processingPulses =
                      (IF Len(nodes'[2].pulses) > Len(nodes[2].pulses) THEN 0 ELSE 1)
            /\ (k = 2 /\ arrivalsAt(2, 3) = 1 /\ nodes[3].processingPulses = 0) =>
                  /\ nodes'[3].processingPulses = 1
                  /\ nodes'[3].active
                  /\ nodes'[3].opacity = OpacityScale]_vars

\* P's first pulse has just completed at D
C9_Witness ==
    /\ Len(nodes) = 3
    /\ justCompleted(2, 3)
    /\ nodes[3].processingPulses = 1
    /\ nodes[3].active
    /\ nodes[3].opacity = OpacityScale

-----------------------------------------------------------------------------
(* Claims about the layout pass called directly                            *)

\* C8: applyForceLayout with strength 0 changes no velocity, no position and
\* nothing else
C8_ZeroStrengthNoOp ==
    [][(event'.name = "layout" /\ event'.x = 0) =>
         /\ nodes' = nodes
         /\ UNCHANGED <<pulsePool, allocated, appState, pointer, canvas>>]_vars

\* A call with strength 0 on a network with a moving entity and a dragged one
C8_Witness ==
    /\ event.name = "layout"
    /\ event.x = 0
    /\ \E k \in 1..Len(nodes) : nodes[k].vx # 0 /\ ~nodes[k].isDragged
    /\ \E k \in 1..Len(nodes) : nodes[k].isDragged /\ nodes[k].vy # 0


-----------------------------------------------------------------------------
(* Claims about the pulse pool                                             *)

\* The identities of the pulse objects under way
flightIds == {p.id : p \in allPulses}

\* The index of the node whose sendRandomImpulse has just made a pulse
madeBy(i) ==
    /\ event'.name = "sendRandomImpulse"
    /\ event'.index = i
    /\ Len(nodes'[i].pulses) = Len(nodes[i].pulses) + 1

\* C11: createPulse, the pool not being empty, returns the object on top of
\* the pool, the pool loses that one object and nothing is allocated; in
\* every case the pulse has the source, target and speed of the call and
\* progress 0; an object is allocated only when the pool is empty
C11_CreatePulseReuses ==
    [][\A i \in 1..Len(nodes) : madeBy(i) =>
         LET made == nodes'[i].pulses[Len(nodes'[i].pulses)]
         IN /\ made.source = nodes[i].id
            /\ \E s \in CallStreams :
                  /\ made.target = nodes[i].connections[
                         RandomFloor(NextRandom(s), Len(nodes[i].connections)) + 1]
                  /\ made.speed = pulseSpeed(SkipRandom(s, 2))
            /\ made.progress = 0
            /\ IF pulsePool # <<>>
               THEN /\ made.id = pulsePool[Len(pulsePool)].id
                    /\ pulsePool' = SubSeq(pulsePool, 1, Len(pulsePool) - 1)
                    /\ allocated' = allocated
               ELSE /\ made.id \notin flightIds
                    /\ pulsePool' = <<>>
                    /\ allocated' = allocated + 1]_vars

\* Node 2 holds a pulse it made from an object of a full pool: every object
\* allocated so far was allocated for node 1, and the object has been at its
\* target before
C11_Witness ==
    /\ event.name = "sendRandomImpulse"
    /\ event.index = 2
    /\ allocated = MAX_PULSE_COUNT
    /\ Len(pulsePool) = MAX_PULSE_COUNT - 1
    /\ Len(nodes[2].pulses) = 1
    /\ nodes[2].pulses[1].id = 1
    /\ nodes[2].pulses[1].source = 2
    /\ nodes[2].pulses[1].progress = 0


\* The identities of the pulse objects in the pool
poolIds == {pulsePool[k].id : k \in 1..Len(pulsePool)}

\* The pulses that left the pulses lists in the step
landed == flightIds \ flightIds'

\* C12: the pool never holds more than MAX_PULSE_COUNT pulses; the pulses
\* that reach their target in an updatePulses call go to the pool while it
\* holds fewer than MAX_PULSE_COUNT, and the others go neither to the pool
\* nor back to a pulses list; and a pulse can be sent however many are under
\* way
C12_PoolBounded ==
    /\ [](Len(pulsePool) <= MAX_PULSE_COUNT)
    /\ [][event'.name = "updatePulses" =>
            /\ Len(pulsePool') =
                  Min(MAX_PULSE_COUNT, Len(pulsePool) + Cardinality(landed))
            /\ SubSeq(pulsePool', 1, Len(pulsePool)) = pulsePool
            /\ poolIds' \subseteq poolIds \cup landed
            /\ Len(pulsePool) = MAX_PULSE_COUNT => pulsePool' = pulsePool]_vars
    /\ [](counts.layouts < MaxEmits /\ 2 * nodes[3].opacity > OpacityScale =>
            ENABLED (NextEmit /\ Len(nodes'[1].pulses) = Len(nodes[1].pulses) + 1))

\* A pulse has just been dropped at a full pool while more pulses than the
\* pool can hold are under way: one of the objects allocated is in no pulses
\* list and not in the pool
C12_Witness ==
    /\ event.name = "updatePulses"
    /\ Len(pulsePool) = MAX_PULSE_COUNT
    /\ Cardinality(flightIds) > MAX_PULSE_COUNT
    /\ Cardinality(flightIds) + Len(pulsePool) < allocated
    /\ Cardinality(flightIds) = Len(nodes[1].pulses) + Len(nodes[2].pulses)


-----------------------------------------------------------------------------
(* Claims about the drag state                                             *)

\* The indices of the nodes whose isDragged flag is set
draggedNodes == {k \in 1..Len(nodes) : nodes[k].isDragged}

\* C13: between handlers at most one node has isDragged set, and a node that
\* has it set is appState.selectedNode
C13_SingleDragged ==
    /\ Cardinality(draggedNodes) <= 1
    /\ \A k \in draggedNodes : appState.selectedNode = nodes[k].id


\* The handler that ran last was a release: mouseup, touchend or touchcancel
releaseEvents == {"mouseup", "touchend"}

\* C14: a release leaves isDragging false and selectedNode null, and the node
\* that was selected with isDragged false; with no node selected it changes
\* neither the nodes nor appState nor the pointer state
C14_ReleaseClears ==
    [][event'.name \in releaseEvents =>
         /\ ~appState'.isDragging
         /\ appState'.selectedNode = Null
         /\ IF appState.selectedNode # Null
            THEN ~nodes'[nodeIndex(nodes, appState.selectedNode)].isDragged
            ELSE /\ nodes' = nodes
                 /\ appState' = appState
                 /\ pointer' = pointer]_vars

\* The second input of the session is a touchend, the first one was a press
\* that hit a node
C14_Witness ==
    /\ event.name = "touchend"
    /\ counts.inputs = 2
    /\ pointer.offsetX # 0
    /\ draggedNodes = {}


\* C19: between handlers, isDragging is true exactly when a node is selected,
\* and the selected node has isDragged set
C19_DragStateConsistent ==
    /\ appState.isDragging <=> appState.selectedNode # Null
    /\ appState.selectedNode # Null =>
          nodes[nodeIndex(nodes, appState.selectedNode)].isDragged

\* A press has selected a node while another node was being dragged
C19_Witness ==
    /\ event.name \in {"mousedown", "touchstart"}
    /\ appState.isDragging
    /\ Cardinality(draggedNodes) = 2
    /\ \E k \in draggedNodes : appState.selectedNode = nodes[k].id

\* The squared distance of the point (x, y) from the centre of a node
squaredDistance(node, x, y) ==
    (x - node.x) * (x - node.x) + (y - node.y) * (y - node.y)

\* The nodes whose centre is within radius * 1.5 of (x, y)
nodesWithin(x, y) ==
    {k \in 1..Len(nodes) :
        4 * squaredDistance(nodes[k], x, y) <= 9 * nodes[k].radius * nodes[k].radius}

\* The handler about to have run is a press: a mousedown, or a touchstart with
\* one finger down
isPress(e) == e.name = "mousedown" \/ (e.name = "touchstart" /\ e.index = 1)

\* C20: a press at p selects the first node of the array whose centre is
\* within radius * 1.5 of p, sets its isDragged and records p minus its centre
\* as the offset; a press that hits no node leaves appState, the offset and
\* every isDragged flag as they were
C20_PressSelectsFirstHit ==
    [][isPress(event') =>
         LET hits == nodesWithin(event'.x, event'.y)
         IN IF hits # {}
            THEN LET k == CHOOSE h \in hits : \A j \in hits : h <= j
                 IN /\ appState'.selectedNode = nodes[k].id
                    /\ appState'.isDragging
                    /\ nodes'[k].isDragged
                    /\ pointer'.offsetX = event'.x - nodes[k].x
                    /\ pointer'.offsetY = event'.y - nodes[k].y
            ELSE /\ appState' = appState
                 /\ pointer'.offsetX = pointer.offsetX
                 /\ pointer'.offsetY = pointer.offsetY
                 /\ \A k \in 1..Len(nodes) :
                       nodes'[k].isDragged = nodes[k].isDragged]_vars

\* A press has hit two nodes and selected the one that comes first in the
\* array, although the centre of the other one is nearer
C20_Witness ==
    /\ isPress(event)
    /\ \E k, j \in nodesWithin(event.x, event.y) :
          /\ k < j
          /\ appState.selectedNode = nodes[k].id
          /\ pointer.offsetX = event.x - nodes[k].x
          /\ squaredDistance(nodes[j], event.x, event.y)
                < squaredDistance(nodes[k], event.x, event.y)

-----------------------------------------------------------------------------
(* Claims about the frame loop                                             *)

\* C15: the deltaTime handed to the render callback of a rendered frame is
\* the time since the previous rendered frame
C15_DeltaSinceLastRender ==
    [][event'.name = "frame" /\ event'.rendered /\ lastRenderTime # 0 =>
         event'.deltaTime = event'.time - lastRenderTime]_vars


\* C16: a frame callback renders exactly when the time since the callback
\* before it is at least 1000/60 ms; a callback that does not render leaves
\* the nodes, the pulse pool, the content rectangle and the layout clock alone;
\* and after either kind of callback the next one is due: once the render
\* callback, if any, has run through, a frame callback can run again
C16_RenderGate ==
    /\ [][event'.name = "frame" =>
            /\ event'.deltaTime = event'.time - (IF appState.lastFrameTime = 0
                                                 THEN event'.time
                                                 ELSE appState.lastFrameTime)
            /\ event'.rendered <=> 60 * event'.deltaTime >= 1000
            /\ event'.rendered => pc' = "update"
            /\ ~event'.rendered =>
                  /\ pc' = "idle"
                  /\ UNCHANGED <<nodes, pulsePool, allocated, canvas, pointer>>
                  /\ appState' = [appState EXCEPT !.lastFrameTime = event'.time]]_vars
    /\ [](pc = "update" => ENABLED NextUpdate)
    /\ [](pc = "idle" /\ counts.frames < MaxLoopFrames => ENABLED NextLoopFrame)

\* A callback 8 ms after a rendered frame has not rendered
C16_Witness ==
    /\ event.name = "frame"
    /\ ~event.rendered
    /\ event.deltaTime = 8
    /\ lastRenderTime = event.time - 8


\* C17: a rendered frame runs the gentle layout pass exactly when its
\* timestamp is more than forceLayoutInterval after lastForceLayoutTime, the
\* timestamp of the pass before; the pass sets lastForceLayoutTime to the
\* timestamp of its frame and nothing else changes lastForceLayoutTime, so
\* two passes in a row are more than forceLayoutInterval apart
C17_GentlePassInterval ==
    /\ [][event'.name = "frame" /\ event'.rendered =>
            /\ event'.layout <=>
                  event'.time - appState.lastForceLayoutTime > forceLayoutInterval
            /\ appState'.lastForceLayoutTime =
                  IF event'.layout THEN event'.time
                  ELSE appState.lastForceLayoutTime]_vars
    /\ [][appState'.lastForceLayoutTime # appState.lastForceLayoutTime =>
            /\ event'.name = "frame" /\ event'.rendered /\ event'.layout
            /\ appState'.lastForceLayoutTime - appState.lastForceLayoutTime
                  > forceLayoutInterval]_vars

\* A frame has rendered exactly forceLayoutInterval after a gentle pass, and
\* has not run the pass
C17_Witness ==
    /\ event.name = "frame"
    /\ event.rendered
    /\ ~event.layout
    /\ appState.lastForceLayoutTime > 0
    /\ event.time - appState.lastForceLayoutTime = forceLayoutInterval


-----------------------------------------------------------------------------
(* Claims about the network during the session                             *)

\* What createNetwork decides about a node: identity, kind, size, connections
built(ns) ==
    [k \in 1..Len(ns) |->
        [id |-> ns[k].id, type |-> ns[k].type, radius |-> ns[k].radius,
         connections |-> ns[k].connections]]

\* C18: no frame callback, node update, layout pass, input handler or resize
\* adds or removes a node or a connection or changes the kind or the radius
\* of a node
C18_NetworkFixed == [][built(nodes') = built(nodes)]_vars

\* The session has seen a press on a node, a resize and a rendered frame with
\* a gentle layout pass and the update of every node
C18_Witness ==
    /\ canvas # StartCanvas
    /\ appState.lastForceLayoutTime > 0
    /\ draggedNodes # {}
    /\ pc = "idle"
    /\ Len(nodes) = 5


-----------------------------------------------------------------------------
(* Claims about what a rendered frame does to the nodes                    *)

\* Position and velocity of every node
kinematics(ns) ==
    [k \in 1..Len(ns) |-> [x |-> ns[k].x, y |-> ns[k].y, vx |-> ns[k].vx, vy |-> ns[k].vy]]

\* C21: a rendered frame integrates the positions whether or not the gentle
\* layout pass ran in it; the nodes it hands to the node updates are the
\* result of the pass (if due), then the integration, then the damping; the
\* node updates come after and move no node
C21_FrameOrder ==
    /\ [][event'.name = "frame" /\ event'.rendered =>
            /\ pc' = "update"
            /\ \E laid \in
                  {IF event'.time - appState.lastForceLayoutTime > forceLayoutInterval
                   THEN applyForceLayout(nodes, canvas.width, canvas.height,
                                         appState'.contentRect, GENTLE)
                   ELSE nodes} :
                  \A k \in 1..Len(nodes) :
                      nodes'[k] = dampen(updatePosition(laid[k], canvas.width,
                                                        canvas.height, event'.deltaTime))]_vars
    /\ [][pc = "update" =>
            event'.name = "update" /\ kinematics(nodes') = kinematics(nodes)]_vars

\* The frame before ran the gentle pass, this one has not, and nodes are
\* moving
C21_Witness ==
    /\ event.name = "frame"
    /\ event.rendered
    /\ ~event.layout
    /\ appState.lastForceLayoutTime = event.time - event.deltaTime
    /\ \E k \in 1..Len(nodes) : nodes[k].vx # 0 /\ ~nodes[k].isDragged


\* C22: in a rendered frame the integration and the damping leave a dragged
\* node where it was, with the velocity it had (after the layout pass, when
\* one ran in the frame); the velocity of every other node is, after the
\* integration, multiplied by 0.999
C22_DraggedSkipped ==
    [][event'.name = "frame" /\ event'.rendered =>
         \E laid \in
             {IF event'.time - appState.lastForceLayoutTime > forceLayoutInterval
              THEN applyForceLayout(nodes, canvas.width, canvas.height,
                                    appState'.contentRect, GENTLE)
              ELSE nodes} :
             \A k \in 1..Len(nodes) :
                 IF nodes[k].isDragged
                 THEN nodes'[k] = laid[k]
                 ELSE \E moved \in {updatePosition(laid[k], canvas.width,
                                                   canvas.height, event'.deltaTime)} :
                         /\ nodes'[k].vx = Quot(moved.vx * 999, 1000)
                         /\ nodes'[k].vy = Quot(moved.vy * 999, 1000)
                         /\ nodes'[k].x = moved.x
                         /\ nodes'[k].y = moved.y]_vars

\* A frame has rendered, without a layout pass, while a node with a velocity
\* was dragged and another node was moving
C22_Witness ==
    /\ event.name = "frame"
    /\ event.rendered
    /\ ~event.layout
    /\ \E k \in draggedNodes : nodes[k].vx # 0 /\ nodes[k].vy # 0
    /\ \E k \in 1..Len(nodes) : ~nodes[k].isDragged /\ nodes[k].vx # 0


-----------------------------------------------------------------------------
(* Claims about the boundary clamp                                         *)

\* One clamp of one axis: the coordinate is put on the margin `edge` and the
\* velocity becomes half its magnitude with the sign `inward`
bounced(axis, edge, inward) ==
    [pos |-> edge, vel |-> inward * Quot(Abs(axis.vel), 2)]

\* The low clamp of an axis, then the high clamp, each one when it triggers.
\* The position the clamps test is `at.whole` when `at.part` is 0 and lies
\* between `at.whole` and `at.whole + 1` otherwise; `pos` is that position at
\* the resolution.
clampedAxis(at, pos, vel, margin, size) ==
    LET start == [pos |-> pos, vel |-> vel]
        isLow == at.whole < margin
        low == IF isLow THEN bounced(start, margin, 1) ELSE start
        isHigh == IF isLow THEN margin > size - margin
                  ELSE at.whole + at.part > size - margin
    IN IF isHigh THEN bounced(low, size - margin, -1) ELSE low

\* Where a node is after node.x += node.vx * animationSpeed, on one axis:
\* the travel is |vel| * 25 * deltaTime / (4 * FrameUnit)
integrated(pos, vel, deltaTime) ==
    LET travel == Abs(vel) * 25 * deltaTime
        whole == travel \div (4 * FrameUnit)
        part == IF travel % (4 * FrameUnit) > 0 THEN 1 ELSE 0
    IN IF vel >= 0 THEN [whole |-> pos + whole, part |-> part]
       ELSE [whole |-> pos - whole - part, part |-> part]

\* That position at the resolution, and the position of a node at rest
rounded(pos, vel, deltaTime) ==
    LET travel == Abs(vel) * 25 * deltaTime
        near == (travel + 2 * FrameUnit) \div (4 * FrameUnit)
    IN IF vel >= 0 THEN pos + near ELSE pos - near

resting(pos) == [whole |-> pos, part |-> 0]

\* C23: each clamp that triggers, at the end of a layout pass or in the
\* position integration, puts the node on its margin and sets the velocity of
\* its axis to half the magnitude, pointing into the canvas; it leaves the
\* other axis alone, and an axis on which no clamp triggers keeps position
\* and velocity
C23_ClampBounces ==
    [][event'.name \in {"enforceBoundaries", "updatePositions"} =>
         \A k \in 1..Len(nodes) :
             LET n == nodes[k]
                 dt == event'.deltaTime
                 moves == event'.name = "updatePositions"
                 ex == IF moves THEN integrated(n.x, n.vx, dt) ELSE resting(n.x)
                 ey == IF moves THEN integrated(n.y, n.vy, dt) ELSE resting(n.y)
                 px == IF moves THEN rounded(n.x, n.vx, dt) ELSE n.x
                 py == IF moves THEN rounded(n.y, n.vy, dt) ELSE n.y
                 X == clampedAxis(ex, px, n.vx, 2 * n.radius, canvas.width * PosScale)
                 Y == clampedAxis(ey, py, n.vy, 2 * n.radius, canvas.height * PosScale)
             IN /\ nodes'[k].x = X.pos /\ nodes'[k].vx = X.vel
                /\ nodes'[k].y = Y.pos /\ nodes'[k].vy = Y.vel]_vars

\* The integration has clamped a node that was moving left at the left
\* margin: it is on the margin, moving right at half the speed, and its
\* vertical velocity, on which no clamp triggered, is as it was
C23_Witness ==
    /\ event.name = "updatePositions"
    /\ counts.layouts = 1
    /\ canvas = StartCanvas
    /\ nodes[1].x = 2 * nodes[1].radius
    /\ nodes[1].vx = 404
    /\ nodes[1].vy = 512
    /\ nodes[1].y = steppedTo(400, 512, event.deltaTime)


-----------------------------------------------------------------------------
(* Claims about Node.update                                                *)

\* nodePosition of Node.update, in 1/(15000 * TimeScale): the position in the
\* 15 s cycle plus the phase activationTime / 5000, modulo 1
phasePosition(node, time) ==
    ((time % 15000) * TimeScale + 3 * node.activationTime) % (15000 * TimeScale)

\* C24: after the update step of a node that is hovered or dragged its
\* targetOpacity is 1; after the update step of any other node it is 1 when
\* the phase position is below 0.7, and 0.3 otherwise
C24_TargetOpacity ==
    event.name = "update" =>
        LET node == nodes[event.index]
        IN node.targetOpacity =
              IF node.isHovered \/ node.isDragged THEN OpacityScale
              ELSE IF 10 * phasePosition(node, event.time) < 7 * 15000 * TimeScale
                   THEN OpacityScale
                   ELSE (3 * OpacityScale) \div 10

\* A node that is neither hovered nor dragged has been updated in the dormant
\* part of its cycle and aims at 0.3, and a dragged node was updated before
\* it in the same frame, in the dormant part of its own, and aims at 1
C24_Witness ==
    /\ event.name = "update"
    /\ ~nodes[event.index].isDragged /\ ~nodes[event.index].isHovered
    /\ 10 * phasePosition(nodes[event.index], event.time) >= 7 * 15000 * TimeScale
    /\ 10 * nodes[event.index].targetOpacity = 3 * OpacityScale
    /\ \E k \in 1..(event.index - 1) :
          /\ nodes[k].isDragged
          /\ 10 * phasePosition(nodes[k], event.time) >= 7 * 15000 * TimeScale
          /\ nodes[k].targetOpacity = OpacityScale


\* C25: in every state, after construction, after each node update and after
\* each pulse arrival, a node is active exactly when its opacity is above 0.7
C25_ActiveIffOpaque ==
    \A k \in 1..Len(nodes) :
        nodes[k].active <=> 10 * nodes[k].opacity > 7 * OpacityScale

\* The update of a node has just taken its opacity above 0.7 on the way up
\* to 1, and the node is active
C25_Witness ==
    /\ event.name = "update"
    /\ nodes[event.index].active
    /\ nodes[event.index].targetOpacity = OpacityScale
    /\ 10 * nodes[event.index].opacity > 7 * OpacityScale
    /\ 100 * nodes[event.index].opacity < 73 * OpacityScale


-----------------------------------------------------------------------------
(* Claims about emission                                                   *)

\* C26: sendRandomImpulse adds at most one pulse to the list of its node, and
\* adds one only if the node has a connection and the target of the pulse, one
\* of its connections, has opacity above 0.5; processingPulses of the node
\* goes down by 1 when a pulse was added and it was positive, and stays as it
\* was otherwise; no other node changes
C26_EmissionGuarded ==
    [][event'.name = "sendRandomImpulse" =>
         LET i == event'.index
             created == Len(nodes'[i].pulses) - Len(nodes[i].pulses)
         IN /\ created \in {0, 1}
            /\ created = 1 =>
                  LET pulse == nodes'[i].pulses[Len(nodes'[i].pulses)]
                  IN /\ nodes[i].connections # <<>>
                     /\ pulse.target \in Range(nodes[i].connections)
                     /\ pulse.source = nodes[i].id
                     /\ 2 * nodes[nodeIndex(nodes, pulse.target)].opacity > OpacityScale
            /\ nodes'[i].processingPulses =
                  IF created = 1 /\ nodes[i].processingPulses > 0
                  THEN nodes[i].processingPulses - 1
                  ELSE nodes[i].processingPulses
            /\ \A k \in 1..Len(nodes) : k # i => nodes'[k] = nodes[k]]_vars

\* The first call has made the process node, which had two pulses pending,
\* emit to the destination on the first step of its fade-in above 0.5
C26_Witness ==
    /\ event.name = "sendRandomImpulse"
    /\ event.index = 2
    /\ counts.layouts = 1
    /\ Len(nodes[2].pulses) = 1
    /\ nodes[2].processingPulses = 1
    /\ nodes[3].opacity = fadeIn(7)


\* C27: the update step of node k leaves every node that one of the pulses it
\* completes has reached active, with opacity 1 and targetOpacity 1
C27_ArrivalActivates ==
    [][pc = "update" =>
         LET k == event.index + 1
         IN \A t \in 1..Len(nodes) :
               arrivalsAt(k, t) > 0 =>
                   /\ nodes'[t].active
                   /\ nodes'[t].opacity = OpacityScale
                   /\ nodes'[t].targetOpacity = OpacityScale]_vars

\* A pulse has just completed at a node that is not pointed at and whose phase
\* is dormant in this frame and was dormant in the frame before, in which it
\* was updated: its opacity was below 1 and its target opacity 0.3 when the
\* pulse arrived
C27_Witness ==
    \E k, t \in 1..Len(nodes) :
        /\ justCompleted(nodes[k].id, nodes[t].id)
        /\ t > k
        /\ event.deltaTime > 0
        /\ lastRenderTime > event.deltaTime
        /\ ~nodes[t].isHovered /\ ~nodes[t].isDragged
        /\ ~shouldBeActive(nodes[t], event.time)
        /\ ~shouldBeActive(nodes[t], event.time - event.deltaTime)
        /\ nodes[t].active
        /\ nodes[t].opacity = OpacityScale
        /\ nodes[t].targetOpacity = OpacityScale


\* The pulses in the list of node k after a step that were not in it before
createdBy(k) ==
    {j \in 1..Len(nodes'[k].pulses) :
        \A i \in 1..Len(nodes[k].pulses) :
            nodes[k].pulses[i].id # nodes'[k].pulses[j].id}

\* C28: the update step of a source stamps lastPulseTime with the frame time
\* exactly when the source is active and the frame time is more than
\* pulseInterval after lastPulseTime, and creates a pulse only when it stamps;
\* nothing else writes lastPulseTime or pulseInterval, so that two stamps of
\* one source are more than pulseInterval apart
C28_SourceInterval ==
    [][/\ \A k \in 1..Len(nodes) :
             (k <= Len(nodes') /\ nodes'[k].id = nodes[k].id) =>
                 /\ nodes'[k].pulseInterval = nodes[k].pulseInterval
                 /\ nodes'[k].lastPulseTime # nodes[k].lastPulseTime =>
                       /\ pc = "update"
                       /\ k = event.index + 1
                       /\ nodes[k].type = "source"
       /\ (pc = "update" /\ nodes[event.index + 1].type = "source") =>
             LET k == event.index + 1
                 due == /\ nodes'[k].active
                        /\ (event.time - nodes[k].lastPulseTime) * TimeScale
                               > nodes[k].pulseInterval
             IN /\ nodes'[k].lastPulseTime =
                      (IF due THEN event.time ELSE nodes[k].lastPulseTime)
                /\ nodes'[k].lastPulseTime # nodes[k].lastPulseTime <=> due
                /\ createdBy(k) # {} => due]_vars

\* A source that has a pulse in flight from an earlier attempt has just made
\* another attempt, which created no pulse
C28_Witness ==
    /\ event.name = "update"
    /\ nodes[event.index].type = "source"
    /\ nodes[event.index].lastPulseTime = event.time
    /\ nodes[event.index].pulses # <<>>
    /\ \A j \in 1..Len(nodes[event.index].pulses) :
          nodes[event.index].pulses[j].progress
              > progressStep(nodes[event.index].pulses[j].speed, event.deltaTime)


-----------------------------------------------------------------------------
(* Claims about the wiring and the pruning                                 *)

\* The connections of a node that lead to a node of the given type
connectionsTo(node, type) ==
    {c \in Range(node.connections) :
        \E k \in 1..Len(nodes) : nodes[k].id = c /\ nodes[k].type = type}

\* C29: once the network is wired, and after every pruning pass, a source has
\* 1 to 3 connections, all to process nodes of the network; a process node has
\* at most 1 connection to a process node, 1 or 2 to destination nodes and no
\* other; a destination has none
C29_WiringCounts ==
    pc \in {"optimizeNetwork", "built"} =>
        \A k \in 1..Len(nodes) :
            LET node == nodes[k]
                toProcess == Cardinality(connectionsTo(node, "process"))
                toDestination == Cardinality(connectionsTo(node, "destination"))
            IN CASE node.type = "source" ->
                      /\ Len(node.connections) \in 1..3
                      /\ toProcess = Len(node.connections)
                 [] node.type = "process" ->
                      /\ toProcess <= 1
                      /\ toDestination \in 1..2
                      /\ toProcess + toDestination = Len(node.connections)
                 [] OTHER -> node.connections = <<>>

\* createNetwork has returned after pruning at least once, with a source of 3
\* connections, a source of 1, a process node connected to a process node and
\* 2 destinations, and a process node connected to 1 destination only
C29_Witness ==
    /\ pc = "built"
    /\ iterations >= 1
    /\ \E k \in 1..Len(nodes) :
          nodes[k].type = "source" /\ Len(nodes[k].connections) = 3
    /\ \E k \in 1..Len(nodes) :
          nodes[k].type = "source" /\ Len(nodes[k].connections) = 1
    /\ \E k \in 1..Len(nodes) :
          /\ nodes[k].type = "process"
          /\ Cardinality(connectionsTo(nodes[k], "process")) = 1
          /\ Cardinality(connectionsTo(nodes[k], "destination")) = 2
    /\ \E k \in 1..Len(nodes) :
          nodes[k].type = "process" /\ Len(nodes[k].connections) = 1


\* The ids of the sources of a network
sourceIds(ns) == {ns[k].id : k \in {j \in 1..Len(ns) : ns[j].type = "source"}}

\* C30: a pruning pass runs only when fewer than 5 passes have removed a
\* node; a pass that removes nothing changes nothing and ends the loop, a pass
\* that removes a node is counted, and the fifth of them ends the loop; no pass
\* removes a source
C30_PruningTerminates ==
    /\ [](iterations <= MAX_ITERATIONS
          /\ (pc = "optimizeNetwork" => iterations < MAX_ITERATIONS))
    /\ [][pc = "optimizeNetwork" =>
            /\ Len(nodes') <= Len(nodes)
            /\ Len(nodes') = Len(nodes) =>
                  nodes' = nodes /\ iterations' = iterations /\ pc' = "built"
            /\ Len(nodes') < Len(nodes) =>
                  /\ iterations' = iterations + 1
                  /\ pc' = (IF iterations' = MAX_ITERATIONS
                            THEN "built" ELSE "optimizeNetwork")
            /\ sourceIds(nodes') = sourceIds(nodes)]_vars

\* createNetwork has returned after five passes that each removed a node, with
\* a source that no pass removed although nothing is connected to it
C30_Witness ==
    /\ pc = "built"
    /\ iterations = MAX_ITERATIONS
    /\ sourceIds(nodes) # {}
    /\ sourceIds(nodes) \cap hasIncoming(nodes) = {}


-----------------------------------------------------------------------------
(* Claims about the node count                                             *)

\* n = floor(sqrt(area) / 5), stated without a square root
isFifthOfRoot(n, area) ==
    /\ (5 * n) * (5 * n) <= area
    /\ area < (5 * (n + 1)) * (5 * (n + 1))

\* C31: createNodes creates floor(sqrt(width * height) / 5) nodes, and 15 when
\* that is below 15, 50 when it is above 50
C31_NodeCount ==
    pc = "initializeConnections" =>
        LET area == canvas.width * canvas.height
            n == Len(nodes)
        IN /\ n \in MIN_NODES..MAX_NODES
           /\ n > MIN_NODES /\ n < MAX_NODES => isFifthOfRoot(n, area)
           /\ n = MIN_NODES => area < (5 * (MIN_NODES + 1)) * (5 * (MIN_NODES + 1))
           /\ n = MAX_NODES => area >= (5 * MAX_NODES) * (5 * MAX_NODES)

\* createNodes has created 30 nodes on a 400 x 60 canvas, whose area 24000
\* has the square root 154.9
C31_Witness ==
    /\ pc = "initializeConnections"
    /\ canvas = [width |-> 400, height |-> 60]
    /\ Len(nodes) = 30


-----------------------------------------------------------------------------
(* Claims about the hover flag                                             *)

\* The nodes with the hover flag
hoveredNodes(ns) == {k \in 1..Len(ns) : ns[k].isHovered}

\* C32: after a mousemove handled while not dragging, the hovered nodes are
\* the first node of the array within 1.5 radius of the pointer, none when
\* there is no such node; after a mousemove handled while dragging no node is
\* hovered; a touch event changes no hover flag
C32_HoverFirstHit ==
    [][/\ event'.name = "mousemove" =>
             hoveredNodes(nodes') =
                 (IF appState.isDragging THEN {}
                  ELSE {k \in nodesWithin(event'.x, event'.y) :
                           \A j \in nodesWithin(event'.x, event'.y) : k <= j})
       /\ event'.name \in {"touchstart", "touchmove", "touchend"} =>
             /\ Len(nodes') = Len(nodes)
             /\ \A k \in 1..Len(nodes) : nodes'[k].isHovered = nodes[k].isHovered]_vars

\* The pointer has moved, with no node dragged, to a point within reach of
\* two nodes, and the first of them alone is hovered
C32_Witness ==
    /\ event.name = "mousemove"
    /\ ~appState.isDragging
    /\ Cardinality(nodesWithin(event.x, event.y)) >= 2
    /\ Cardinality(hoveredNodes(nodes)) = 1


-----------------------------------------------------------------------------
(* Claims about the pair forces                                            *)

\* The velocities of a network
velocities(ns) == [k \in 1..Len(ns) |-> <<ns[k].vx, ns[k].vy>>]

\* C33: an iteration that reaches the pair computation divides by a distance
\* that is positive; for two nodes at the same position that distance is 1 px
\* and the computation changes no velocity; an iteration that skips its pair
\* because of a dragged node divides by nothing and changes no velocity
C33_NoDivisionByZero ==
    [][event'.name \in {"applyNodeRepulsion", "applyConnectionAttractions"} =>
         LET a == event'.x
             b == event'.y
             skipped == \/ nodes[b].isDragged
                        \/ /\ event'.name = "applyConnectionAttractions"
                           /\ nodes[a].isDragged
         IN IF skipped
            THEN event'.index = 0 /\ velocities(nodes') = velocities(nodes)
            ELSE /\ event'.index > 0
                 /\ (nodes[a].x = nodes[b].x /\ nodes[a].y = nodes[b].y) =>
                       /\ event'.index = PosScale * 2^DistBits
                       /\ velocities(nodes') = velocities(nodes)]_vars

\* The repulsion of two moving nodes at the same position, neither of them
\* dragged while the third node is, has just been computed with the divisor
\* 1 px, within the repulsion range
C33_Witness ==
    /\ event.name = "applyNodeRepulsion"
    /\ ~nodes[event.x].isDragged /\ ~nodes[event.y].isDragged
    /\ \E k \in 1..Len(nodes) : nodes[k].isDragged
    /\ nodes[event.x].x = nodes[event.y].x
    /\ nodes[event.x].y = nodes[event.y].y
    /\ nodes[event.x].vx # 0
    /\ event.index = PosScale * 2^DistBits
    /\ event.index * ConfigPerPos
          < 2 * layoutConfig(canvas.width, canvas.height, event.time).minDistance
              * 2^DistBits

-----------------------------------------------------------------------------
(* Claims about the position of a dragged node                             *)

\* C34, as stated: a frame callback, a node update or a resize leaves a node
\* that is dragged at the position it had, so that between two move events it
\* stays where the last move event put it
C34_DraggedStays ==
    [][event'.name \in {"frame", "update", "resize"} =>
         \A k \in draggedNodes :
             nodes'[k].x = nodes[k].x /\ nodes'[k].y = nodes[k].y]_vars


-----------------------------------------------------------------------------
(* Claims about the books of the pulses                                    *)

\* C35: processingPulses of a process node is 0 before the first frame and
\* never negative, and every step changes it by the number of pulses that
\* complete at the node in the step minus the number of pulses the node emits
\* in the step; it is therefore the number of pulses the node has received
\* minus the number it has emitted
C35_PendingIsReceivedMinusEmitted ==
    /\ [](\A t \in 1..Len(nodes) :
             nodes[t].type = "process" =>
                 /\ nodes[t].processingPulses >= 0
                 /\ counts.frames = 0 => nodes[t].processingPulses = 0)
    /\ [][\A t \in 1..Len(nodes) :
             nodes[t].type = "process" =>
                 nodes'[t].processingPulses - nodes[t].processingPulses =
                     (IF pc = "update"
                      THEN arrivalsAt(event.index + 1, t) - Cardinality(createdBy(t))
                      ELSE 0)]_vars

\* A process node with a pulse of its own in flight has just received a pulse
\* that it keeps pending
C35_Witness ==
    \E k, t \in 1..Len(nodes) :
        /\ justCompleted(nodes[k].id, nodes[t].id)
        /\ nodes[t].type = "process"
        /\ nodes[t].processingPulses >= 1
        /\ \E j \in 1..Len(nodes[t].pulses) : nodes[t].pulses[j].progress > 0


\* The number of entries of all pulses lists
flightCount ==
    Cardinality(UNION {{<<k, j>> : j \in 1..Len(nodes[k].pulses)} : k \in 1..Len(nodes)})

\* C36: no pulse object is in two pulses lists or twice in one, and no pulse
\* object of a pulses list is in the pool
C36_PulseObjectsDisjoint ==
    /\ Cardinality(flightIds) = flightCount
    /\ flightIds \cap poolIds = {}

\* A process node has just forwarded a pulse in the step in which it received
\* one, with an object taken from the pool: the object is older than that of a
\* pulse emitted earlier, and other objects remain in the pool
C36_Witness ==
    /\ \E k, t \in 1..Len(nodes) : justCompleted(nodes[k].id, nodes[t].id)
    /\ Len(pulsePool) >= 2
    /\ \E p, q \in allPulses : p.progress = 0 /\ q.progress > 0 /\ q.id > p.id


-----------------------------------------------------------------------------
(* Claims about the connections after pruning                              *)

\* The ids of the nodes of a network
nodeIds(ns) == {ns[k].id : k \in 1..Len(ns)}

\* C38: after every pruning pass, and when createNetwork has returned, every
\* connection of a node of the network leads to a node of the network
C38_NoDanglingConnection ==
    pc \in {"optimizeNetwork", "built"} =>
        \A k \in 1..Len(nodes) : Range(nodes[k].connections) \subseteq nodeIds(nodes)

\* createNetwork has returned because the fifth pass removed a node: nodes
\* were removed, a node that no connection leads to is left, and it has
\* connections of its own
C38_Witness ==
    /\ pc = "built"
    /\ iterations = MAX_ITERATIONS
    /\ Len(nodes) < calculateOptimalNodeCount(canvas.width, canvas.height)
    /\ \E k \in 1..Len(nodes) :
          /\ nodes[k].type # "source"
          /\ nodes[k].id \notin hasIncoming(nodes)
          /\ nodes[k].connections # <<>>


-----------------------------------------------------------------------------
(* Claims about who sends pulses to whom                                   *)

\* C39: a source has no pending pulse and is the target of no pulse; a
\* destination has no pulse in its list; the source of every pulse is the node
\* that has it in its list and its target is one of the connections of that
\* node
C39_PulseEndpoints ==
    \A k \in 1..Len(nodes) :
        /\ nodes[k].type = "source" =>
              /\ nodes[k].processingPulses = 0
              /\ \A p \in allPulses : p.target # nodes[k].id
        /\ nodes[k].type = "destination" => nodes[k].pulses = <<>>
        /\ \A j \in 1..Len(nodes[k].pulses) :
              /\ nodes[k].pulses[j].source = nodes[k].id
              /\ nodes[k].pulses[j].target \in Range(nodes[k].connections)

\* A source and a process node have pulses under way while a destination has
\* received one
C39_Witness ==
    /\ event.name = "update"
    /\ \E k \in 1..Len(nodes) : nodes[k].type = "source" /\ nodes[k].pulses # <<>>
    /\ \E k \in 1..Len(nodes) : nodes[k].type = "process" /\ nodes[k].pulses # <<>>
    /\ \E k \in 1..Len(nodes) :
          nodes[k].type = "destination" /\ nodes[k].processingPulses >= 1

=============================================================================
